---- MODULE Spec2Model ----
(***************************************************************************)
(* PDF-chat: the chunker (server/lib/pdf.cjs), the chunk persistence of    *)
(* the ingestion workflow (server/lib/workflows.cjs), the identifier       *)
(* resolver and the streaming resolver (server/index.cjs), and the         *)
(* ingestPdf and queryKnowledgeBase calls against the store                *)
(* (server/lib/workflows.cjs, server/lib/snowflake.cjs).                   *)
(*                                                                         *)
(* Strings are modelled as sequences of one-character strings, so that     *)
(* trim, split, slice, endsWith and the regular expressions of the code    *)
(* are computed and not assumed.  A UUID is one token ("u1", "u2"): the    *)
(* code never looks inside one, it only matches the whole 36-character     *)
(* block.                                                                  *)
(***************************************************************************)
EXTENDS Integers, Sequences, FiniteSets, TLC

VARIABLES
    \* ---- chunker / ingestion -------------------------------------------
    pages,         \* textResult.pages of the parser: records [text, num]
    chunkSize,     \* env.CHUNK_SIZE
    chunkOverlap,  \* env.CHUNK_OVERLAP
    pc,            \* position of chunkPdf / ingestPdf
    pageIdx,       \* 1-based position of the forEach of chunkPdf
    cursor,        \* chunkPageText: cursor
    chunkIndex,    \* chunkPageText: chunkIndex
    pageNumber,    \* chunkPageText: pageNumber argument
    pageChunks,    \* chunkPageText: its local chunks array
    chunks,        \* chunkPdf: chunks
    chunkOrder,    \* persistChunks: chunkOrder
    vecRows,       \* rows of TABLE_VECTORS written by this ingest
    \* ---- GET /api/pdf: identifier resolver and streaming resolver -------
    reqIdentifier, \* parsed.data.identifier
    reqFileId,     \* parsed.data.fileId
    reqStage,      \* parsed.data.stage
    docRows,       \* rows of TABLE_DOCUMENTS
    spc,           \* position of streamPdfToResponse
    pointer,       \* streamPdfToResponse: pointer
    candidates,    \* streamPdfToResponse: stageCandidates
    candIdx,       \* position of for (const candidate of stageCandidates)
    lastError,     \* streamPdfToResponse: lastError
    errors,        \* ghost: the error caught for each candidate, in order
    thrown,        \* the error streamPdfToResponse threw
    headers,       \* headers set on res
    response,      \* what the route sent: status and message
    log,           \* ghost: the store and network calls made, in order
    \* ---- ingestPdf and queryKnowledgeBase calls against the store -------
    calls,         \* per call: its arguments, locals and position
    tmpDirs,       \* directories under os.tmpdir(): [owner, file]
    stageObjs,     \* relative paths of the objects in the stage
    documents,     \* rows of TABLE_DOCUMENTS, in insertion order
    vectors,       \* rows of TABLE_VECTORS, in insertion order
    infrastructureReady  \* snowflake.cjs: let infrastructureReady

chunkVars == <<pages, chunkSize, chunkOverlap, pc, pageIdx, cursor, chunkIndex,
               pageNumber, pageChunks, chunks, chunkOrder, vecRows>>

streamVars == <<reqIdentifier, reqFileId, reqStage, docRows, spc, pointer,
                candidates, candIdx, lastError, errors, thrown, headers,
                response, log>>

storeVars == <<calls, tmpDirs, stageObjs, documents, vectors, infrastructureReady>>

vars == <<chunkVars, streamVars, storeVars>>

----------------------------------------------------------------------------
(* Bounds of the model *)

MaxDocLen == 4
MaxPages == 2
MaxChunkSize == 3
MaxOverlap == 2
MaxSegs == 3
MaxStreamSegs == 2

----------------------------------------------------------------------------
(* Generic helpers *)

Min(a, b) == IF a <= b THEN a ELSE b
Max(a, b) == IF a >= b THEN a ELSE b

\* JavaScript \s, restricted to the characters of the model
IsWs(c) == c \in {" ", "\n"}

\* String.prototype.slice(from, to) with 0-based, end-exclusive offsets; offsets
\* beyond the end are clamped to the length
Slice(s, from, to) == SubSeq(s, Min(from, Len(s)) + 1, Min(to, Len(s)))

RECURSIVE TrimStart(_)
TrimStart(s) ==
    IF s = <<>> THEN <<>>
    ELSE IF IsWs(Head(s)) THEN TrimStart(Tail(s)) ELSE s

RECURSIVE TrimEnd(_)
TrimEnd(s) ==
    IF s = <<>> THEN <<>>
    ELSE IF IsWs(s[Len(s)]) THEN TrimEnd(SubSeq(s, 1, Len(s) - 1)) ELSE s

\* String.prototype.trim()
Trim(s) == TrimEnd(TrimStart(s))

\* rawSlice.replace(/\s+/g, ' '): every maximal whitespace run becomes one space
RECURSIVE CollapseWs(_)
CollapseWs(s) ==
    IF s = <<>> THEN <<>>
    ELSE IF IsWs(Head(s))
         THEN <<" ">> \o CollapseWs(TrimStart(s))
         ELSE <<Head(s)>> \o CollapseWs(Tail(s))

\* rawSlice.replace(ITEM_GAP_MARKER, ' ').trim()
Normalize(s) == Trim(CollapseWs(s))

----------------------------------------------------------------------------
(* The chunker: chunkPageText and chunkPdf *)

\* const overlap = Math.min(chunkOverlap, Math.max(chunkSize - 1, 0))
EffOverlapNoClamp(size, ov) == ov
EffOverlap(size, ov) == Min(ov, Max(size - 1, 0))

\* const chunkEnd = Math.min(cursor + chunkSize, totalLength)
ChunkEndNoClamp(cur, size, total) == cur + size
ChunkEnd(cur, size, total) == Min(cur + size, total)

\* cursor = Math.max(chunkEnd - overlap, 0)
NextCursorKeepsOverlap(chunkEnd, ov) == Max(chunkEnd - ov + 1, 0)
NextCursor(chunkEnd, ov) == Max(chunkEnd - ov, 0)

\* the record pushed by chunkPageText; "page" is a ghost field: the position
\* in pages of the page the chunk was cut from
MkChunk(idx, pnum, text, from, to, page) ==
    [chunkIndex |-> idx,
     pageNumber |-> pnum,
     rawText |-> Slice(text, from, to),
     normalizedText |-> Normalize(Slice(text, from, to)),
     pageCharStart |-> from,
     pageCharEnd |-> to,
     page |-> page]

\* startIndexOffset: chunks.length
StartIndexPerPage(done) == 0
StartIndexOffset(done) == Len(done)

\* pageResult?.num ?? chunks.length + 1   (num = <<>>: the parser reports none)
PageNumberOf(p, done) == IF p.num # <<>> THEN p.num[1] ELSE Len(done) + 1

----------------------------------------------------------------------------
(* Strings of the resolver: null, truthiness, search, split *)

\* null and undefined; a one-token string that is no string of the program
Null == <<"null">>

\* JavaScript truthiness of a string or null
Truthy(s) == s # Null /\ s # <<>>

\* a || b
Or(a, b) == IF Truthy(a) THEN a ELSE b

\* a ?? b
Coalesce(a, b) == IF a # Null THEN a ELSE b

\* String.prototype.indexOf(sub, from): 0-based, -1 when absent
RECURSIVE IndexOfFrom(_, _, _)
IndexOfFrom(s, sub, from) ==
    IF from + Len(sub) > Len(s) THEN -1
    ELSE IF SubSeq(s, from + 1, from + Len(sub)) = sub THEN from
         ELSE IndexOfFrom(s, sub, from + 1)

IndexOf(s, sub) == IndexOfFrom(s, sub, 0)

Includes(s, sub) == IndexOf(s, sub) >= 0

StartsWith(s, pre) == Len(pre) <= Len(s) /\ SubSeq(s, 1, Len(pre)) = pre

EndsWith(s, suf) ==
    Len(suf) <= Len(s) /\ SubSeq(s, Len(s) - Len(suf) + 1, Len(s)) = suf

\* String.prototype.split('/')
RECURSIVE SplitSlash(_)
SplitSlash(s) ==
    LET i == IndexOf(s, <<"/">>)
    IN IF i < 0 THEN <<s>>
       ELSE <<SubSeq(s, 1, i)>> \o SplitSlash(SubSeq(s, i + 2, Len(s)))

\* replace(/\/+$/, '')
RECURSIVE StripTrailingSlashes(_)
StripTrailingSlashes(s) ==
    IF s # <<>> /\ s[Len(s)] = "/"
    THEN StripTrailingSlashes(SubSeq(s, 1, Len(s) - 1))
    ELSE s

\* the tokens that stand for a UUID (36 characters of [0-9a-f-])
Uuids == {"u1", "u2"}

\* \w of the regular expressions, restricted to the characters of the model
IsWord(c) == c \in {"r", "q", "d", "p", "f", "R", "P", "D", "F", "S", "T", "_"}

----------------------------------------------------------------------------
(* server/index.cjs: sanitizers and the identifier resolver *)

\* STAGE_REFERENCE of env.cjs: "@" + SNOWFLAKE_STAGE
STAGE_REFERENCE == <<"@", "S">>

\* 'document.pdf'
DefaultFilename == <<"d">>

\* IDENTIFIER_PATTERN = /^[\w.\-\/ ]+$/i
IdentifierPattern(s) ==
    /\ Len(s) >= 1
    /\ \A i \in 1..Len(s) :
          IsWord(s[i]) \/ s[i] \in Uuids \/ s[i] \in {".", "-", "/", " "}

\* sanitizeIdentifier: [ok, value] or [ok = FALSE, error]
SanitizeIdentifier(identifier) ==
    LET trimmed == Trim(identifier)
    IN IF ~IdentifierPattern(trimmed)
       THEN [ok |-> FALSE, value |-> Null, error |-> "badIdentifier"]
       ELSE IF Includes(trimmed, <<".", ".">>)
            THEN [ok |-> FALSE, value |-> Null, error |-> "dotDot"]
            ELSE [ok |-> TRUE, value |-> trimmed, error |-> "none"]

\* STAGE_PATTERN = /^@?[\w.]+$/i
StagePattern(s) ==
    LET body == IF s # <<>> /\ Head(s) = "@" THEN Tail(s) ELSE s
    IN /\ Len(body) >= 1
       /\ \A i \in 1..Len(body) : IsWord(body[i]) \/ body[i] = "."

\* return trimmed.startsWith('@') ? trimmed : `@${trimmed}`
PrefixStageVerbatim(trimmed) == trimmed
PrefixStage(trimmed) ==
    IF StartsWith(trimmed, <<"@">>) THEN trimmed ELSE <<"@">> \o trimmed

\* sanitizeStageReference: [ok, value]; ok = FALSE is the thrown 400 error
SanitizeStageReference(reference) ==
    LET trimmed == IF reference = Null THEN Null ELSE Trim(reference)
    IN IF ~Truthy(trimmed) THEN [ok |-> TRUE, value |-> STAGE_REFERENCE]
       ELSE IF ~StagePattern(trimmed) THEN [ok |-> FALSE, value |-> Null]
            ELSE [ok |-> TRUE, value |-> PrefixStage(trimmed)]

\* workflows.cjs extractRelativeStagePath
ExtractRelativeStagePath(value) ==
    IF ~Truthy(value) THEN Null
    ELSE LET normalized == Trim(value)
             slashIndex == IndexOf(normalized, <<"/">>)
             protocolIndex == IndexOf(normalized, <<":", "/", "/">>)
             firstSlash == IndexOfFrom(normalized, <<"/">>, protocolIndex + 3)
         IN IF normalized = <<>> THEN Null
            ELSE IF StartsWith(normalized, <<"@">>)
                 THEN (IF slashIndex >= 0
                       THEN SubSeq(normalized, slashIndex + 2, Len(normalized))
                       ELSE Null)
                 ELSE IF protocolIndex >= 0
                      THEN (IF firstSlash >= 0
                            THEN SubSeq(normalized, firstSlash + 2, Len(normalized))
                            ELSE Null)
                      ELSE normalized

\* workflows.cjs extractStageReferenceFromPath
ExtractStageReferenceFromPath(value) ==
    IF ~Truthy(value) THEN Null
    ELSE LET trimmed == Trim(value)
             slashIndex == IndexOf(trimmed, <<"/">>)
         IN IF ~StartsWith(trimmed, <<"@">>) THEN Null
            ELSE IF slashIndex >= 0 THEN SubSeq(trimmed, 1, slashIndex)
                 ELSE trimmed

NoPointer ==
    [found |-> FALSE, fileId |-> Null, filename |-> Null, stagePath |-> Null,
     stageReference |-> Null]

\* fetchDocumentPointer, after the query: rows is what the query returned
\* (where FILE_ID = fileId limit 1)
PointerOfRows(rows, fileId) ==
    IF rows = <<>> THEN NoPointer
    ELSE LET doc == rows[1]
             meta == doc.METADATA
             path == Or(doc.STAGE_PATH, meta.stagePath)
         IN [found |-> TRUE,
             fileId |-> Or(doc.FILE_ID, Or(meta.fileId, fileId)),
             filename |-> Or(doc.FILENAME, Or(meta.filename, DefaultFilename)),
             stagePath |-> Or(ExtractRelativeStagePath(path), Null),
             stageReference |->
                 Or(doc.STAGE_REFERENCE,
                    Or(meta.stageReference,
                       Or(ExtractStageReferenceFromPath(path), Null)))]

\* pointer?.x
Opt(p, field) == IF p.found THEN p[field] ELSE Null

\* identifier.trim().split('/').filter(Boolean).pop()
LastSegment(identifier) ==
    LET segs == SelectSeq(SplitSlash(Trim(identifier)), LAMBDA x : x # <<>>)
    IN IF segs = <<>> THEN Null ELSE segs[Len(segs)]

\* LEGACY_FLAT_IDENTIFIER = /^(<uuid>)-(.+)$/i
LegacyFlatMatch(tail) ==
    Len(tail) >= 3 /\ tail[1] \in Uuids /\ tail[2] = "-"

\* extractLegacyTailInfo: [found, fileId, filename]
ExtractLegacyTailInfo(identifier) ==
    LET tail == IF Truthy(identifier) THEN LastSegment(identifier) ELSE Null
    IN IF ~Truthy(tail) \/ ~LegacyFlatMatch(tail)
       THEN [found |-> FALSE, fileId |-> Null, filename |-> Null]
       ELSE [found |-> TRUE, fileId |-> <<tail[1]>>,
             filename |-> SubSeq(tail, 3, Len(tail))]

\* buildLegacyCandidateIdentifier: the legacy combined form, or Null
BuildLegacyUnchecked(identifier, p) ==
    IF ~Truthy(identifier) THEN Null
    ELSE LET trimmed == StripTrailingSlashes(Trim(identifier))
             segments == SplitSlash(trimmed)
         IN IF ~Includes(trimmed, <<"/">>) \/ Len(segments) < 2 THEN Null
            ELSE trimmed \o <<"/">>
                     \o Or(Opt(p, "fileId"), segments[Len(segments) - 1])
                     \o <<"-">> \o Or(Opt(p, "filename"), segments[Len(segments)])
BuildLegacyCandidateIdentifier(identifier, p) ==
    IF ~Truthy(identifier) THEN Null
    ELSE LET trimmed == StripTrailingSlashes(Trim(identifier))
             segments == SplitSlash(trimmed)
             fallbackId == Or(Opt(p, "fileId"), segments[Len(segments) - 1])
             fallbackName == Or(Opt(p, "filename"), segments[Len(segments)])
             legacySuffix == fallbackId \o <<"-">> \o fallbackName
         IN IF ~Includes(trimmed, <<"/">>) \/ Len(segments) < 2 THEN Null
            ELSE IF ~Truthy(fallbackId) \/ ~Truthy(fallbackName) THEN Null
                 ELSE IF EndsWith(trimmed, <<"/">> \o legacySuffix) THEN Null
                      ELSE trimmed \o <<"/">> \o legacySuffix

\* the fold state of buildStageCandidates: candidates, seen, and whether
\* sanitizeStageReference threw
NoCandidates == [cands |-> <<>>, seen |-> {}, threw |-> FALSE]

\* seen.has(key)
SeenHasNever(seen, key) == FALSE
SeenHas(seen, key) == key \in seen

\* addCandidate
AddCandidate(st, identifier, stageRef, defaultStage) ==
    IF st.threw \/ ~Truthy(identifier) \/ Trim(identifier) = <<>> THEN st
    ELSE LET trimmed == Trim(identifier)
             resolved == SanitizeStageReference(Coalesce(stageRef, defaultStage))
             key == resolved.value \o <<":", ":">> \o trimmed
         IN IF ~resolved.ok THEN [st EXCEPT !.threw = TRUE]
            ELSE IF SeenHas(st.seen, key) THEN st
                 ELSE [cands |-> Append(st.cands,
                                        [identifier |-> trimmed,
                                         stageReference |-> resolved.value]),
                       seen |-> st.seen \cup {key},
                       threw |-> FALSE]

\* addCanonicalVariants
AddCanonicalVariantsNestedFirst(st, fileId, filename, stageRef, defaultStage) ==
    IF ~Truthy(fileId) \/ ~Truthy(filename) THEN st
    ELSE LET canonical == fileId \o <<"/">> \o filename
         IN AddCandidate(
                AddCandidate(st, canonical \o <<"/">> \o fileId \o <<"-">> \o filename,
                             stageRef, defaultStage),
                canonical, stageRef, defaultStage)
AddCanonicalVariants(st, fileId, filename, stageRef, defaultStage) ==
    IF ~Truthy(fileId) \/ ~Truthy(filename) THEN st
    ELSE LET canonical == fileId \o <<"/">> \o filename
         IN AddCandidate(
                AddCandidate(st, canonical, stageRef, defaultStage),
                canonical \o <<"/">> \o fileId \o <<"-">> \o filename,
                stageRef, defaultStage)

\* buildStageCandidates lines 188-198: the candidates of the request identifier
RequestRules(st, p, requestIdentifier, requestStage, defaultStage) ==
    IF ~Truthy(requestIdentifier) THEN st
    ELSE LET s1 == AddCandidate(st, requestIdentifier, requestStage, defaultStage)
             legacyFromRequest == BuildLegacyCandidateIdentifier(requestIdentifier, p)
             s2 == IF Truthy(legacyFromRequest)
                   THEN AddCandidate(s1, legacyFromRequest, requestStage, defaultStage)
                   ELSE s1
             inferred == ExtractLegacyTailInfo(requestIdentifier)
         IN IF inferred.found
            THEN AddCanonicalVariants(s2, inferred.fileId, inferred.filename,
                                      requestStage, defaultStage)
            ELSE s2

\* buildStageCandidates lines 200-206: the stagePath of the document
StagePathRules(st, p, defaultStage) ==
    IF ~Truthy(Opt(p, "stagePath")) THEN st
    ELSE LET s1 == AddCandidate(st, p.stagePath, p.stageReference, defaultStage)
             legacyFromPointer == BuildLegacyCandidateIdentifier(p.stagePath, p)
         IN IF Truthy(legacyFromPointer)
            THEN AddCandidate(s1, legacyFromPointer, p.stageReference, defaultStage)
            ELSE s1

\* buildStageCandidates lines 208-210: the canonical forms of the document
CanonicalRules(st, p, defaultStage) ==
    IF Truthy(Opt(p, "fileId")) /\ Truthy(Opt(p, "filename"))
    THEN AddCanonicalVariants(st, p.fileId, p.filename, p.stageReference,
                              defaultStage)
    ELSE st

\* buildStageCandidates lines 200-210
PointerRulesCanonicalFirst(st, p, defaultStage) ==
    StagePathRules(CanonicalRules(st, p, defaultStage), p, defaultStage)
PointerRules(st, p, defaultStage) ==
    CanonicalRules(StagePathRules(st, p, defaultStage), p, defaultStage)

\* buildStageCandidates: [cands, seen, threw]
BuildStageCandidates(p, requestIdentifier, requestStage) ==
    LET defaultStage ==
            Coalesce(Opt(p, "stageReference"), Coalesce(requestStage, STAGE_REFERENCE))
    IN PointerRules(
           RequestRules(NoCandidates, p, requestIdentifier, requestStage,
                        defaultStage),
           p, defaultStage)

----------------------------------------------------------------------------
(* GET /api/pdf: requests and Document rows *)

U1 == <<"u1">>
U2 == <<"u2">>
Name == <<"r">>

\* "<fileId>/<filename>" of the document u1
CanonPath == U1 \o <<"/">> \o Name
\* "<fileId>/<filename>/<fileId>-<filename>": the nested legacy layout
NestedPath == CanonPath \o <<"/">> \o U1 \o <<"-">> \o Name
\* the store rewrote the last segment of the uploaded file
RewrittenPath == U1 \o <<"/", "q">>
\* a legacy row whose STAGE_PATH carries the stage
PrefixedPath == <<"@", "T", "/">> \o CanonPath

NoMeta ==
    [fileId |-> Null, filename |-> Null, stagePath |-> Null, stageReference |-> Null]

\* the metadata persistDocument writes
MetaOf(fileId, filename, stagePath) ==
    [fileId |-> fileId, filename |-> filename, stagePath |-> stagePath,
     stageReference |-> STAGE_REFERENCE]

\* the row persistDocument inserts
MkDocRow(fileId, filename, stagePath, chunkCount) ==
    [FILE_ID |-> fileId, FILENAME |-> filename, STAGE_PATH |-> stagePath,
     STAGE_REFERENCE |-> STAGE_REFERENCE, CHUNK_COUNT |-> chunkCount,
     METADATA |-> MetaOf(fileId, filename, stagePath)]

\* a row of an earlier layout: any column may be missing
LegacyDocRow(filename, stagePath, stageReference, meta) ==
    [FILE_ID |-> U1, FILENAME |-> filename, STAGE_PATH |-> stagePath,
     STAGE_REFERENCE |-> stageReference, CHUNK_COUNT |-> 1, METADATA |-> meta]

\* rows of the document u1: those persistDocument writes (the store kept or
\* rewrote the file name), and rows of the earlier layouts that
\* fetchDocumentPointer provides for: the nested legacy path, the stage inside
\* STAGE_PATH, the values only in METADATA, no path at all, nothing but the id
DocRowsOfU1 ==
    {MkDocRow(U1, Name, CanonPath, 1),
     MkDocRow(U1, Name, RewrittenPath, 1),
     LegacyDocRow(Name, NestedPath, Null, NoMeta),
     LegacyDocRow(Name, PrefixedPath, Null, NoMeta),
     LegacyDocRow(Null, Null, Null, MetaOf(U1, Name, CanonPath)),
     LegacyDocRow(Name, Null, Null, NoMeta),
     LegacyDocRow(Null, Null, Null, NoMeta)}

\* the segments request identifiers are made of
ResolveSegs ==
    {<<>>, U1, Name, U1 \o <<"-">> \o Name, U2 \o <<"-">> \o Name, <<" ", "r">>}

\* identifiers of exactly n segments joined by "/"
RECURSIVE IdentifiersOfSegs(_, _)
IdentifiersOfSegs(segs, n) ==
    IF n = 1 THEN segs
    ELSE {a \o <<"/">> \o b : a \in segs, b \in IdentifiersOfSegs(segs, n - 1)}

Identifiers(segs, n) == UNION {IdentifiersOfSegs(segs, k) : k \in 1..n}

\* pdfRequestSchema: identifier or fileId must be given
PdfRequestValid == Truthy(reqIdentifier) \/ Truthy(reqFileId)

StreamIdleRest ==
    /\ pointer = NoPointer
    /\ candidates = <<>>
    /\ candIdx = 0
    /\ lastError = "none"
    /\ errors = <<>>
    /\ thrown = "none"
    /\ headers = [set |-> FALSE, filename |-> Null, fileId |-> Null,
                  stagePath |-> Null, stageReference |-> Null]
    /\ response = [status |-> 0, message |-> "none"]
    /\ log = <<>>

\* no request: the state of the /api/pdf variables in the other specifications
StreamIdle ==
    /\ reqIdentifier = Null
    /\ reqFileId = Null
    /\ reqStage = Null
    /\ docRows = <<>>
    /\ spc = "idle"
    /\ StreamIdleRest

\* no ingestPdf or queryKnowledgeBase call: the state of the store variables
\* in the other specifications
StoreIdle ==
    /\ calls = <<>>
    /\ tmpDirs = {}
    /\ stageObjs = {}
    /\ documents = <<>>
    /\ vectors = <<>>
    /\ infrastructureReady = FALSE

----------------------------------------------------------------------------
(* Inputs of the chunker *)

Alphabet == {"a", "b", " "}

RECURSIVE TextsOfLen(_)
TextsOfLen(n) ==
    IF n = 0 THEN {<<>>}
    ELSE {<<c>> \o t : c \in Alphabet, t \in TextsOfLen(n - 1)}

Texts(n) == UNION {TextsOfLen(k) : k \in 0..n}

\* the page texts of a document: k pages holding at most n characters in all
RECURSIVE PageTexts(_, _)
PageTexts(k, n) ==
    IF k = 0 THEN {<<>>}
    ELSE UNION {{<<t>> \o d : d \in PageTexts(k - 1, n - Len(t))} : t \in Texts(n)}

\* the parser reports page numbers 1..n (withNum), or none at all
MkPages(texts, withNum) ==
    [i \in 1..Len(texts) |->
        [text |-> texts[i], num |-> IF withNum THEN <<i>> ELSE <<>>]]

\* the example of the specification: chunkSize 10, chunkOverlap 3, 16 characters
ExampleText ==
    <<"a", "b", "c", "d", "e", "f", "g", "h", "i", "j", "k", "l", "m", "n", "o", "p">>
ExampleChunkSize == 10
ExampleChunkOverlap == 3

ChunkIdle ==
    /\ pc = "page"
    /\ pageIdx = 1
    /\ cursor = 0
    /\ chunkIndex = 0
    /\ pageNumber = 0
    /\ pageChunks = <<>>
    /\ chunks = <<>>
    /\ chunkOrder = 0
    /\ vecRows = <<>>

InitChunk ==
    /\ \/ /\ \E k \in 0..MaxPages : \E texts \in PageTexts(k, MaxDocLen) :
                \E withNum \in BOOLEAN : pages = MkPages(texts, withNum)
          /\ chunkSize \in 1..MaxChunkSize
          /\ chunkOverlap \in 0..MaxOverlap
       \/ /\ pages = MkPages(<<ExampleText>>, TRUE)
          /\ chunkSize = ExampleChunkSize
          /\ chunkOverlap = ExampleChunkOverlap
    /\ ChunkIdle
    /\ StreamIdle
    /\ StoreIdle

----------------------------------------------------------------------------
(* chunkPdf and chunkPageText, one action per page and per loop iteration *)

CurText == pages[pageIdx].text

\* chunkPdf: the body of pages.forEach up to the call of chunkPageText
\* (a page whose text is blank is skipped), and the entry of chunkPageText
ChunkPageEnter ==
    /\ pc = "page"
    /\ pageIdx <= Len(pages)
    /\ IF Trim(CurText) = <<>> \/ Len(CurText) = 0
       THEN /\ pageIdx' = pageIdx + 1
            /\ UNCHANGED <<pc, cursor, chunkIndex, pageNumber, pageChunks>>
       ELSE /\ pc' = "loop"
            /\ cursor' = 0
            /\ chunkIndex' = StartIndexOffset(chunks)
            /\ pageNumber' = PageNumberOf(pages[pageIdx], chunks)
            /\ pageChunks' = <<>>
            /\ UNCHANGED pageIdx
    /\ UNCHANGED <<pages, chunkSize, chunkOverlap, chunks, chunkOrder, vecRows>>

\* chunkPageText: one iteration of while (cursor < totalLength); the last one
\* returns and chunkPdf pushes the page's chunks
WindowStep ==
    /\ pc = "loop"
    /\ cursor < Len(CurText)
    /\ LET total == Len(CurText)
           chunkEnd == ChunkEnd(cursor, chunkSize, total)
           overlap == EffOverlap(chunkSize, chunkOverlap)
           emit == Len(Normalize(Slice(CurText, cursor, chunkEnd))) > 0
           out == IF emit
                  THEN Append(pageChunks,
                              MkChunk(chunkIndex, pageNumber, CurText, cursor,
                                      chunkEnd, pageIdx))
                  ELSE pageChunks
           next == NextCursor(chunkEnd, overlap)
       IN /\ chunkIndex' = IF emit THEN chunkIndex + 1 ELSE chunkIndex
          /\ IF chunkEnd >= total \/ ~(next < total)
             THEN \* break, or the while condition fails: return, and push
                  /\ chunks' = chunks \o out
                  /\ pageChunks' = <<>>
                  /\ pageIdx' = pageIdx + 1
                  /\ pc' = "page"
                  /\ cursor' = IF chunkEnd >= total THEN cursor ELSE next
             ELSE /\ cursor' = next
                  /\ pageChunks' = out
                  /\ UNCHANGED <<chunks, pageIdx, pc>>
    /\ UNCHANGED <<pages, chunkSize, chunkOverlap, pageNumber, chunkOrder, vecRows>>

\* chunkPdf returns; ingestPdf throws when there is no chunk, and otherwise
\* goes on to the store (upload and Document row) and then to persistChunks
ChunkPdfReturn ==
    /\ pc = "page"
    /\ pageIdx > Len(pages)
    /\ pc' = IF Len(chunks) = 0 THEN "noText" ELSE "persist"
    /\ chunkOrder' = 0
    /\ UNCHANGED <<pages, chunkSize, chunkOverlap, pageIdx, cursor, chunkIndex,
                   pageNumber, pageChunks, chunks, vecRows>>

\* the row persistChunks inserts for a chunk; "chunk" is a ghost field: the
\* chunk record the row was written from
MkVecRow(order, chunk) ==
    [CHUNK_INDEX |-> order,
     PAGE_NUMBER |-> chunk.pageNumber,
     CHUNK_TEXT |-> chunk.normalizedText,
     CHAR_START |-> chunk.pageCharStart,
     CHAR_END |-> chunk.pageCharEnd,
     chunk |-> chunk]

\* persistChunks: one iteration of for (const chunk of chunks); the insert
\* succeeds or rejects, and a rejection ends ingestPdf
PersistChunk ==
    /\ pc = "persist"
    /\ chunkOrder < Len(chunks)
    /\ \E ok \in BOOLEAN :
          IF ok
          THEN /\ vecRows' = Append(vecRows, MkVecRow(chunkOrder, chunks[chunkOrder + 1]))
               /\ chunkOrder' = chunkOrder + 1
               /\ UNCHANGED pc
          ELSE /\ pc' = "failed"
               /\ UNCHANGED <<vecRows, chunkOrder>>
    /\ UNCHANGED <<pages, chunkSize, chunkOverlap, pageIdx, cursor, chunkIndex,
                   pageNumber, pageChunks, chunks>>

\* persistChunks and ingestPdf return
IngestReturn ==
    /\ pc = "persist"
    /\ chunkOrder = Len(chunks)
    /\ pc' = "done"
    /\ UNCHANGED <<pages, chunkSize, chunkOverlap, pageIdx, cursor, chunkIndex,
                   pageNumber, pageChunks, chunks, chunkOrder, vecRows>>

NextChunk ==
    \/ ChunkPageEnter /\ UNCHANGED <<streamVars, storeVars>>
    \/ WindowStep /\ UNCHANGED <<streamVars, storeVars>>
    \/ ChunkPdfReturn /\ UNCHANGED <<streamVars, storeVars>>
    \/ PersistChunk /\ UNCHANGED <<streamVars, storeVars>>
    \/ IngestReturn /\ UNCHANGED <<streamVars, storeVars>>

SpecChunk == InitChunk /\ [][NextChunk]_vars

----------------------------------------------------------------------------
(* GET /api/pdf: the initial request states *)

InitResolve ==
    /\ reqIdentifier \in {Null} \cup Identifiers(ResolveSegs, MaxSegs)
    /\ reqFileId \in {Null, U1, U2}
    /\ reqStage \in {Null, <<"S">>, <<"@", "T">>, <<"!">>}
    /\ docRows \in {<<>>} \cup {<<r>> : r \in DocRowsOfU1}
    /\ PdfRequestValid
    /\ spc = "start"
    /\ StreamIdleRest
    /\ ChunkIdle
    /\ pages = <<>> /\ chunkSize = 1 /\ chunkOverlap = 0
    /\ StoreIdle

----------------------------------------------------------------------------
(* streamPdfToResponse and the route GET /api/pdf *)

GenericMessage == "Unable to retrieve PDF from Snowflake stage."

\* the catch of the route: statusCode = error?.statusCode ?? 502, and the
\* error's own message only for a 400
ResponseOfError(err) ==
    IF err \in {"badIdentifier", "dotDot", "badStage"}
    THEN [status |-> 400, message |-> err]
    ELSE [status |-> 502, message |-> GenericMessage]

\* select ... where FILE_ID = ? limit 1
RowsOfFileId(fileId) ==
    LET hit == SelectSeq(docRows, LAMBDA r : r.FILE_ID = fileId)
    IN IF hit = <<>> THEN <<>> ELSE <<hit[1]>>

\* const pointer = await fetchDocumentPointer(fileId): no query without a
\* fileId; the query succeeds or rejects
StreamFetchPointer ==
    /\ spc = "start"
    /\ IF ~Truthy(reqFileId)
       THEN /\ pointer' = NoPointer
            /\ spc' = "build"
            /\ UNCHANGED <<response, log, thrown>>
       ELSE \E ok \in BOOLEAN :
               /\ log' = Append(log, [op |-> "lookup", i |-> 0])
               /\ IF ok
                  THEN /\ pointer' = PointerOfRows(RowsOfFileId(reqFileId), reqFileId)
                       /\ spc' = "build"
                       /\ UNCHANGED <<response, thrown>>
                  ELSE /\ spc' = "failed"
                       /\ thrown' = "lookupRejected"
                       /\ response' = ResponseOfError("lookupRejected")
                       /\ UNCHANGED pointer
    /\ UNCHANGED <<reqIdentifier, reqFileId, reqStage, docRows, candidates,
                   candIdx, lastError, errors, headers>>
    /\ UNCHANGED <<chunkVars, storeVars>>

\* buildStageCandidates, and the check that there is a candidate
StreamBuildCandidates ==
    /\ spc = "build"
    /\ LET st == BuildStageCandidates(pointer, reqIdentifier, reqStage)
       IN IF st.threw
          THEN /\ spc' = "failed"
               /\ thrown' = "badStage"
               /\ response' = ResponseOfError("badStage")
               /\ UNCHANGED <<candidates, candIdx>>
          ELSE IF st.cands = <<>>
               THEN /\ spc' = "failed"
                    /\ thrown' = "missingIdentifier"
                    /\ response' = ResponseOfError("missingIdentifier")
                    /\ UNCHANGED <<candidates, candIdx>>
               ELSE /\ spc' = "presign"
                    /\ candidates' = st.cands
                    /\ candIdx' = 1
                    /\ UNCHANGED <<response, thrown>>
    /\ UNCHANGED <<reqIdentifier, reqFileId, reqStage, docRows, pointer,
                   lastError, errors, headers, log>>
    /\ UNCHANGED <<chunkVars, storeVars>>

NextResolve ==
    \/ StreamFetchPointer
    \/ StreamBuildCandidates

SpecResolve == InitResolve /\ [][NextResolve]_vars

----------------------------------------------------------------------------
(* streamPdfToResponse: the loop over the candidates *)

\* the segments of the request identifiers of the streaming specification:
\* "$" is a character outside IDENTIFIER_PATTERN
StreamSegs == {U1, Name, U1 \o <<"-">> \o Name, <<"$">>, <<".", ".">>}

InitStream ==
    /\ reqIdentifier \in {Null} \cup Identifiers(StreamSegs, MaxStreamSegs)
    /\ reqFileId \in {Null, U1}
    /\ reqStage \in {Null, <<"@", "T">>, <<"!">>}
    /\ docRows \in {<<>>,
                    <<MkDocRow(U1, Name, CanonPath, 1)>>,
                    <<LegacyDocRow(Name, NestedPath, Null, NoMeta)>>}
    /\ PdfRequestValid
    /\ spc = "start"
    /\ StreamIdleRest
    /\ ChunkIdle
    /\ pages = <<>> /\ chunkSize = 1 /\ chunkOverlap = 0
    /\ StoreIdle

\* the candidate the loop is at
Candidate == candidates[candIdx]

\* what createPresignedUrl returns besides the url: identifier and
\* stageReference, sanitized
ResolvedOf(c) ==
    [identifier |-> SanitizeIdentifier(c.identifier).value,
     stageReference |->
         SanitizeStageReference(Coalesce(c.stageReference, STAGE_REFERENCE)).value]

\* the candidate the response headers describe
HeaderSourceFirst(i) == ResolvedOf(candidates[1])
HeaderSource(i) == ResolvedOf(candidates[i])

\* resolvedIdentifier.split('/').pop()
PopSegment(identifier) ==
    LET segs == SplitSlash(identifier) IN segs[Len(segs)]

\* the res.setHeader calls of lines 258-268
HeadersFor(resolved, p) ==
    LET downloadName ==
            Or(Opt(p, "filename"), Or(PopSegment(resolved.identifier), DefaultFilename))
    IN [set |-> TRUE,
        filename |-> downloadName,
        fileId |-> IF Truthy(Opt(p, "fileId")) THEN p.fileId ELSE headers.fileId,
        stagePath |-> resolved.identifier,
        stageReference |-> resolved.stageReference]

\* the loop variable after the catch block
RetryCandidate(i) == i
NextCandidate(i) == i + 1

\* lastError = error
KeepFirstError(last, err) == IF last = "none" THEN err ELSE last
RecordError(last, err) == err

\* throw lastError ?? new Error('Unable to retrieve PDF ...')
ThrownAlwaysGeneric(last) == "unableToRetrieve"
ThrownError(last) == IF last # "none" THEN last ELSE "unableToRetrieve"

\* catch (error) { lastError = error; ... } and on to the next candidate; the
\* error of each candidate is kept in errors
Caught(err) ==
    /\ lastError' = RecordError(lastError, err)
    /\ errors' = Append(errors, err)
    /\ candIdx' = NextCandidate(candIdx)
    /\ spc' = "presign"

CatchAndContinue(err) ==
    /\ Caught(err)
    /\ log' = Append(log, [op |-> "fail", i |-> candIdx])

\* createPresignedUrl(candidate): the sanitizers throw before any query; the
\* query rejects, returns no URL, or returns a URL
StreamPresign ==
    /\ spc = "presign"
    /\ candIdx <= Len(candidates)
    /\ LET stageOk == SanitizeStageReference(
                          Coalesce(Candidate.stageReference, STAGE_REFERENCE)).ok
           safe == SanitizeIdentifier(Candidate.identifier)
       IN IF ~stageOk
          THEN CatchAndContinue("badStage")
          ELSE IF ~safe.ok
               THEN CatchAndContinue(safe.error)
               ELSE \E outcome \in {"rejected", "noUrl", "url"} :
                       IF outcome = "url"
                       THEN /\ spc' = "fetch"
                            /\ log' = Append(log, [op |-> "presign", i |-> candIdx])
                            /\ UNCHANGED <<lastError, errors, candIdx>>
                       ELSE /\ Caught(IF outcome = "rejected"
                                      THEN "presignRejected"
                                      ELSE "noPresignedUrl")
                            /\ log' = log \o <<[op |-> "presign", i |-> candIdx],
                                               [op |-> "fail", i |-> candIdx]>>
    /\ UNCHANGED <<reqIdentifier, reqFileId, reqStage, docRows, pointer,
                   candidates, headers, response, thrown>>
    /\ UNCHANGED <<chunkVars, storeVars>>

\* fetch(url) and what follows up to the return or the catch: the fetch
\* rejects, answers with a non-success status or without a body, or succeeds;
\* on success the headers are set and the body is piped (body.pipe or
\* Readable.fromWeb), or buffered when there is no streaming primitive
StreamFetch ==
    /\ spc = "fetch"
    /\ \E outcome \in {"rejected", "notOk", "noBody", "pipe", "fromWeb", "buffer"} :
          LET fetched == Append(log, [op |-> "fetch", i |-> candIdx])
          IN IF outcome \in {"rejected", "notOk", "noBody"}
             THEN /\ Caught(IF outcome = "rejected" THEN "fetchRejected"
                            ELSE "downloadFailed")
                  /\ log' = Append(fetched, [op |-> "fail", i |-> candIdx])
                  /\ UNCHANGED <<headers, response>>
             ELSE /\ headers' = HeadersFor(HeaderSource(candIdx), pointer)
                  /\ UNCHANGED <<lastError, errors, candIdx>>
                  /\ IF outcome = "buffer"
                     THEN /\ spc' = "buffer"
                          /\ log' = fetched
                          /\ UNCHANGED response
                     ELSE /\ spc' = "streamed"
                          /\ log' = Append(fetched, [op |-> "ok", i |-> candIdx])
                          /\ response' = [status |-> 200, message |-> "pdf"]
    /\ UNCHANGED <<reqIdentifier, reqFileId, reqStage, docRows, pointer,
                   candidates, thrown>>
    /\ UNCHANGED <<chunkVars, storeVars>>

\* const buffer = Buffer.from(await pdfResponse.arrayBuffer()); res.end(buffer)
StreamBuffer ==
    /\ spc = "buffer"
    /\ \E ok \in BOOLEAN :
          IF ok
          THEN /\ spc' = "streamed"
               /\ log' = Append(log, [op |-> "ok", i |-> candIdx])
               /\ response' = [status |-> 200, message |-> "pdf"]
               /\ UNCHANGED <<lastError, errors, candIdx>>
          ELSE /\ CatchAndContinue("bufferFailed")
               /\ UNCHANGED response
    /\ UNCHANGED <<reqIdentifier, reqFileId, reqStage, docRows, pointer,
                   candidates, headers, thrown>>
    /\ UNCHANGED <<chunkVars, storeVars>>

\* throw lastError ?? new Error('Unable to retrieve PDF ...'), and the catch
\* of the route
StreamExhausted ==
    /\ spc = "presign"
    /\ candIdx > Len(candidates)
    /\ spc' = "failed"
    /\ thrown' = ThrownError(lastError)
    /\ response' = ResponseOfError(ThrownError(lastError))
    /\ UNCHANGED <<reqIdentifier, reqFileId, reqStage, docRows, pointer,
                   candidates, candIdx, lastError, errors, headers, log>>
    /\ UNCHANGED <<chunkVars, storeVars>>

NextStream ==
    \/ StreamFetchPointer
    \/ StreamBuildCandidates
    \/ StreamPresign
    \/ StreamFetch
    \/ StreamBuffer
    \/ StreamExhausted

SpecStream == InitStream /\ [][NextStream]_vars

----------------------------------------------------------------------------
(* ingestPdf and queryKnowledgeBase calls against the store.  Calls        *)
(* interleave at their awaits: one action per awaited external call.       *)

\* the concurrent calls
Calls == {1, 2}

\* the most chunks chunkPdf returns to an ingestPdf call
MaxChunks == 2

\* const fileId = randomUUID(): each call draws its own
FileIdShared(c) == U1
FileIdOf(c) == IF c = 1 THEN U1 ELSE U2

\* what chunkPdf returns: n chunks with the dense chunkIndex of the chunker
ChunkListOf(n) ==
    [i \in 1..n |-> MkChunk(i - 1, 1, [k \in 1..n |-> "a"], i - 1, i, 1)]

\* a call before its first step; NoArgs are the fields of the other kind
NoIngestArgs ==
    [fileId |-> Null, filename |-> Null, chunks |-> <<>>, tempFilePath |-> Null,
     resolvedStagePath |-> Null, chunkOrder |-> 0]

NoQueryArgs ==
    [question |-> Null, fileIds |-> <<>>, topK |-> <<>>, limit |-> 0,
     rows |-> <<>>, prompt |-> <<>>, completion |-> <<>>, result |-> <<>>]

\* ext is a ghost field: the external calls the call issued, in order;
\* result is <<>> until the call has a value to return, and reply is <<>>
\* until the route has answered the request
CallBase(kind) ==
    [kind |-> kind, pc |-> "start", error |-> "none", ext |-> <<>>, reply |-> <<>>]

\* '.pdf' and the fallback 'document.pdf' of sanitizeFilename
DotPdf == <<".", "p", "d", "f">>
FallbackFilename == <<"d">> \o DotPdf

\* String.prototype.toLowerCase(), on the letters of the model
UpperToLower == [R |-> "r", P |-> "p", D |-> "d", F |-> "f", S |-> "s", T |-> "t"]
ToLowerCase(s) ==
    [i \in 1..Len(s) |-> IF s[i] \in DOMAIN UpperToLower THEN UpperToLower[s[i]] ELSE s[i]]

\* replace(/[^a-z0-9.\-_ ]/gi, '-')
ReplaceUnsafe(s) ==
    [i \in 1..Len(s) |->
        IF IsWord(s[i]) \/ s[i] \in {".", "-", " "} THEN s[i] ELSE "-"]

\* replace(/\s+/g, '-'): every maximal whitespace run becomes one dash
RECURSIVE DashWs(_)
DashWs(s) ==
    IF s = <<>> THEN <<>>
    ELSE IF IsWs(Head(s))
         THEN <<"-">> \o DashWs(TrimStart(s))
         ELSE <<Head(s)>> \o DashWs(Tail(s))

\* sanitizeFilename; Null stands for every value that is no string
SanitizeFilename(filename) ==
    IF ~Truthy(filename) THEN FallbackFilename
    ELSE LET trimmed == ToLowerCase(Trim(filename))
             safe == DashWs(ReplaceUnsafe(trimmed))
             finalName == IF Len(safe) > 0 THEN safe ELSE FallbackFilename
         IN IF EndsWith(finalName, DotPdf) THEN finalName ELSE finalName \o DotPdf

\* ingestPdf(buffer, originalName): lines 162-166
IngestCall(c) ==
    CallBase("ingest") @@ NoQueryArgs @@
    [fileId |-> FileIdOf(c), filename |-> Name, chunks |-> <<>>,
     tempFilePath |-> Null,
     resolvedStagePath |-> FileIdOf(c) \o <<"/">> \o Name,
     chunkOrder |-> 0]

\* ingestPdf(buffer, originalName) with the filename and the intended stage
\* path made from originalName: lines 162-166
IngestCallOf(c, originalName) ==
    [filename |-> SanitizeFilename(originalName),
     resolvedStagePath |-> FileIdOf(c) \o <<"/">> \o SanitizeFilename(originalName),
     originalName |-> originalName] @@ IngestCall(c)

\* calls' with the fields of call c replaced
Update(c, fields) == calls' = [calls EXCEPT ![c] = fields @@ calls[c]]

\* the call issued one more external call
Ext(c, op) == Append(calls[c].ext, op)

\* an awaited call rejected: the exception leaves the handler of
\* withSnowflakeConnection, whose finally destroys the connection
AfterStepIgnoringFailure(ok, next) == next
AfterStep(ok, next) == IF ok THEN next ELSE "destroy"

\* the error a rejected step leaves in flight
ErrorAfter(c, ok, err) == IF ok THEN calls[c].error ELSE err

\* if (!chunks.length) throw new Error('Unable to extract readable text ...')
NoChunkCheck(cs) == "mkdtemp"
ChunkCheck(cs) == IF Len(cs) = 0 THEN "thrown" ELSE "mkdtemp"

\* const chunks = await chunkPdf(buffer), and the check of chunks.length
IngestChunkPdf(c) ==
    /\ calls[c].kind = "ingest"
    /\ calls[c].pc = "start"
    /\ \/ Update(c, [pc |-> "thrown", error |-> "parseFailed"])
       \/ \E n \in 0..MaxChunks :
             Update(c, [chunks |-> ChunkListOf(n),
                        pc |-> ChunkCheck(ChunkListOf(n)),
                        error |-> IF ChunkCheck(ChunkListOf(n)) = "thrown"
                                  THEN "noReadableText" ELSE "none"])
    /\ UNCHANGED <<tmpDirs, stageObjs, documents, vectors, infrastructureReady>>

\* writeTempPdf: fs.mkdtemp
IngestMkdtemp(c) ==
    /\ calls[c].pc = "mkdtemp"
    /\ \E ok \in BOOLEAN :
          IF ok
          THEN /\ tmpDirs' = tmpDirs \cup {[owner |-> c, file |-> FALSE]}
               /\ Update(c, [pc |-> "writeFile", ext |-> Ext(c, "mkdtemp")])
          ELSE /\ Update(c, [pc |-> "thrown", error |-> "tempFailed",
                             ext |-> Ext(c, "mkdtemp")])
               /\ UNCHANGED tmpDirs
    /\ UNCHANGED <<stageObjs, documents, vectors, infrastructureReady>>

\* writeTempPdf: fs.writeFile, and const tempFilePath = ...; a rejection is
\* thrown out of ingestPdf before its try block is entered
IngestWriteFile(c) ==
    /\ calls[c].pc = "writeFile"
    /\ \E ok \in BOOLEAN :
          IF ok
          THEN /\ tmpDirs' = (tmpDirs \ {[owner |-> c, file |-> FALSE]})
                                \cup {[owner |-> c, file |-> TRUE]}
               /\ Update(c, [pc |-> "connect", tempFilePath |-> <<"t">>,
                             ext |-> Ext(c, "writeFile")])
          ELSE /\ Update(c, [pc |-> "thrown", error |-> "tempFailed",
                             ext |-> Ext(c, "writeFile")])
               /\ UNCHANGED tmpDirs
    /\ UNCHANGED <<stageObjs, documents, vectors, infrastructureReady>>

\* the first step of the handler passed to withSnowflakeConnection
HandlerEntry(c) ==
    CASE calls[c].kind = "ingest" -> "upload"
      [] calls[c].kind = "query" -> "search"
      [] OTHER -> "select"

\* where a call goes when withSnowflakeConnection is left: ingestPdf to its
\* finally block, queryKnowledgeBase to its caller
AfterConnection(c) ==
    IF calls[c].kind = "ingest" THEN "cleanup"
    ELSE IF calls[c].error = "none" THEN "returned" ELSE "thrown"

\* withSnowflakeConnection: const connection = await connect()
Connect(c) ==
    /\ calls[c].pc = "connect"
    /\ \E ok \in BOOLEAN :
          IF ok
          THEN Update(c, [pc |-> "bootstrap", ext |-> Ext(c, "connect")])
          ELSE Update(c, [pc |-> IF calls[c].kind = "ingest" THEN "cleanup"
                                 ELSE "thrown",
                          error |-> "connectFailed", ext |-> Ext(c, "connect")])
    /\ UNCHANGED <<tmpDirs, stageObjs, documents, vectors, infrastructureReady>>

\* ensureInfrastructure: if (infrastructureReady) return; otherwise the
\* bootstrap statements are issued
EnsureInfrastructure(c) ==
    /\ calls[c].pc = "bootstrap"
    /\ IF infrastructureReady
       THEN Update(c, [pc |-> HandlerEntry(c)])
       ELSE Update(c, [pc |-> "bootstrapping", ext |-> Ext(c, "bootstrap")])
    /\ UNCHANGED <<tmpDirs, stageObjs, documents, vectors, infrastructureReady>>

\* infrastructureReady = true, after the last bootstrap statement
LatchSetAnyway(ready, ok) == TRUE
LatchAfter(ready, ok) == ready \/ ok

\* ensureInfrastructure: the bootstrap statements completed or one rejected;
\* infrastructureReady = true after the last one
BootstrapDone(c) ==
    /\ calls[c].pc = "bootstrapping"
    /\ \E ok \in BOOLEAN :
          /\ Update(c, [pc |-> AfterStep(ok, HandlerEntry(c)),
                        error |-> ErrorAfter(c, ok, "bootstrapFailed")])
          /\ infrastructureReady' = LatchAfter(infrastructureReady, ok)
    /\ UNCHANGED <<tmpDirs, stageObjs, documents, vectors>>

\* withSnowflakeConnection: finally { connection.destroy(...) }; an error of
\* destroy is logged and the promise resolves
Destroy(c) ==
    /\ calls[c].pc = "destroy"
    /\ Update(c, [pc |-> AfterConnection(c), ext |-> Ext(c, "destroy")])
    /\ UNCHANGED <<tmpDirs, stageObjs, documents, vectors, infrastructureReady>>

\* uploadToStage: the stage path made of the prefix and of the name the
\* store reported in rows[0].target, or of the local file's name
UploadedPath(target, localName, stagePrefix) ==
    LET resolvedTarget == ExtractRelativeStagePath(target)
        baseName ==
            Or(IF Truthy(resolvedTarget) THEN PopSegment(resolvedTarget) ELSE Null,
               Or(IF target # Null THEN PopSegment(target) ELSE Null, localName))
        safeName == IF Truthy(Trim(baseName)) THEN Trim(baseName) ELSE localName
    IN IF Truthy(stagePrefix) THEN stagePrefix \o <<"/">> \o safeName ELSE safeName

\* the targets a PUT reports for an object stored under the name "stored":
\* the bare name, the name with stage and folder, or none when the store
\* kept the local name
TargetsOf(c, stored) ==
    {stored, STAGE_REFERENCE \o <<"/">> \o calls[c].fileId \o <<"/">> \o stored}
        \cup (IF stored = calls[c].filename THEN {Null} ELSE {})

\* resolvedStagePath = await uploadToStage(connection, tempFilePath,
\* stageFolder): the PUT rejects, or stores the object under the local name
\* or under a name of the store's choosing
IngestUpload(c) ==
    /\ calls[c].pc = "upload"
    /\ \/ /\ Update(c, [pc |-> AfterStep(FALSE, "persistDocument"),
                        error |-> ErrorAfter(c, FALSE, "uploadFailed"),
                        ext |-> Ext(c, "put")])
          /\ UNCHANGED stageObjs
       \/ \E stored \in {calls[c].filename, <<"q">>} :
          \E target \in TargetsOf(c, stored) :
             /\ stageObjs' = stageObjs \cup {calls[c].fileId \o <<"/">> \o stored}
             /\ Update(c, [pc |-> AfterStep(TRUE, "persistDocument"),
                           resolvedStagePath |->
                               UploadedPath(target, calls[c].filename, calls[c].fileId),
                           ext |-> Ext(c, "put")])
    /\ UNCHANGED <<tmpDirs, documents, vectors, infrastructureReady>>

\* await persistDocument(connection, {fileId, filename, stagePath, chunkCount})
IngestPersistDocument(c) ==
    /\ calls[c].pc = "persistDocument"
    /\ \E ok \in BOOLEAN :
          /\ Update(c, [pc |-> AfterStep(ok, "persistChunks"),
                        error |-> ErrorAfter(c, ok, "insertFailed"),
                        chunkOrder |-> 0,
                        ext |-> Ext(c, "insertDocument")])
          /\ documents' =
                IF ok
                THEN Append(documents,
                            MkDocRow(calls[c].fileId, calls[c].filename,
                                     calls[c].resolvedStagePath, Len(calls[c].chunks)))
                ELSE documents
    /\ UNCHANGED <<tmpDirs, stageObjs, vectors, infrastructureReady>>

\* the row of TABLE_VECTORS: FILE_ID and the columns of MkVecRow
MkVectorRow(fileId, order, chunk) ==
    [FILE_ID |-> fileId] @@ MkVecRow(order, chunk)

\* persistChunks: one iteration of for (const chunk of chunks)
IngestPersistChunk(c) ==
    /\ calls[c].pc = "persistChunks"
    /\ calls[c].chunkOrder < Len(calls[c].chunks)
    /\ \E ok \in BOOLEAN :
          /\ Update(c, [pc |-> AfterStep(ok, "persistChunks"),
                        error |-> ErrorAfter(c, ok, "insertFailed"),
                        chunkOrder |-> IF ok THEN calls[c].chunkOrder + 1
                                       ELSE calls[c].chunkOrder,
                        ext |-> Ext(c, "insertChunk")])
          /\ vectors' =
                IF ok
                THEN Append(vectors,
                            MkVectorRow(calls[c].fileId, calls[c].chunkOrder,
                                        calls[c].chunks[calls[c].chunkOrder + 1]))
                ELSE vectors
    /\ UNCHANGED <<tmpDirs, stageObjs, documents, infrastructureReady>>

\* persistChunks returns, and with it the handler
IngestHandlerReturn(c) ==
    /\ calls[c].pc = "persistChunks"
    /\ calls[c].chunkOrder >= Len(calls[c].chunks)
    /\ Update(c, [pc |-> "destroy"])
    /\ UNCHANGED <<tmpDirs, stageObjs, documents, vectors, infrastructureReady>>

\* finally { await cleanupTempFile(tempFilePath) }: fs.rm of the directory
\* removes it or rejects, which is logged; then ingestPdf returns its
\* summary or rethrows
IngestCleanup(c) ==
    /\ calls[c].pc = "cleanup"
    /\ \E ok \in BOOLEAN :
          tmpDirs' = IF ok THEN {d \in tmpDirs : d.owner # c} ELSE tmpDirs
    /\ Update(c, [pc |-> IF calls[c].error = "none" THEN "returned" ELSE "thrown",
                  ext |-> Ext(c, "rm")])
    /\ UNCHANGED <<stageObjs, documents, vectors, infrastructureReady>>

----------------------------------------------------------------------------
(* queryKnowledgeBase *)

\* queryKnowledgeBase = async ({ question, fileIds = [], topK = 5 })
DefaultTopK == 5

\* limit ${Math.max(1, Math.min(topK, 10))}
MinLimit == 1
MaxLimit == 10

\* topK is <<>> when the caller omits it
TopKOrDefault(topK) == IF topK = <<>> THEN DefaultTopK ELSE topK[1]

LimitUnclamped(topK) == TopKOrDefault(topK)
Limit(topK) == Max(MinLimit, Min(TopKOrDefault(topK), MaxLimit))

NoRelevantResults == <<"No relevant results found in the selected PDFs.">>
NoAnswerGenerated == <<"No answer generated.">>

QueryCall(question, fileIds, topK) ==
    CallBase("query") @@ NoIngestArgs @@
    [question |-> question, fileIds |-> fileIds, topK |-> topK, limit |-> 0,
     rows |-> <<>>, prompt |-> <<>>, completion |-> <<>>, result |-> <<>>]

\* if (!question || !question.trim()) throw new Error('Question cannot be empty.')
QuestionOptional(question) == FALSE
QuestionEmpty(question) == ~Truthy(question) \/ ~Truthy(Trim(question))

\* queryKnowledgeBase up to the call of withSnowflakeConnection
QueryStart(c) ==
    /\ calls[c].kind = "query"
    /\ calls[c].pc = "start"
    /\ IF QuestionEmpty(calls[c].question)
       THEN Update(c, [pc |-> "thrown", error |-> "emptyQuestion"])
       ELSE Update(c, [pc |-> "connect"])
    /\ UNCHANGED <<tmpDirs, stageObjs, documents, vectors, infrastructureReady>>

\* from TABLE_VECTORS v join TABLE_DOCUMENTS d on d.FILE_ID = v.FILE_ID
JoinRow(v, d) ==
    [FILE_ID |-> v.FILE_ID, PAGE_NUMBER |-> v.PAGE_NUMBER,
     CHUNK_INDEX |-> v.CHUNK_INDEX, CHUNK_TEXT |-> v.CHUNK_TEXT,
     CHAR_START |-> v.CHAR_START, CHAR_END |-> v.CHAR_END,
     FILENAME |-> d.FILENAME, STAGE_PATH |-> d.STAGE_PATH,
     STAGE_REFERENCE |-> d.STAGE_REFERENCE]

RECURSIVE Joined(_, _)
Joined(vs, ds) ==
    IF vs = <<>> THEN <<>>
    ELSE LET v == Head(vs)
             hits == SelectSeq(ds, LAMBDA d : d.FILE_ID = v.FILE_ID)
         IN [i \in 1..Len(hits) |-> JoinRow(v, hits[i])] \o Joined(Tail(vs), ds)

\* and v.file_id in (?, ...) when fileIds is a non-empty array
FilterUnfiltered(rows, fileIds) == rows
Filter(rows, fileIds) ==
    IF Len(fileIds) > 0
    THEN SelectSeq(rows, LAMBDA r : \E i \in 1..Len(fileIds) : fileIds[i] = r.FILE_ID)
    ELSE rows

\* limit n
Truncate(rows, n) == SubSeq(rows, 1, Min(Len(rows), n))

\* the rows the search statement returns; the ranking by relevance is the
\* store's: here the rows come in the order the store holds them
SearchRows(fileIds, limit) ==
    Truncate(Filter(Joined(vectors, documents), fileIds), limit)

\* mapChunkRow
MapChunkRow(row) ==
    [fileId |-> row.FILE_ID,
     fileName |-> row.FILENAME,
     stagePath |-> ExtractRelativeStagePath(row.STAGE_PATH),
     stageReference |->
         Or(row.STAGE_REFERENCE,
            Or(ExtractStageReferenceFromPath(row.STAGE_PATH), STAGE_REFERENCE)),
     pageNumber |-> row.PAGE_NUMBER,
     chunkIndex |-> row.CHUNK_INDEX,
     text |-> row.CHUNK_TEXT,
     highlightStart |-> row.CHAR_START,
     highlightEnd |-> row.CHAR_END]

\* if (!chunks.length) return {answer: 'No relevant results ...', chunks: []}
AlwaysComplete(mapped) == "complete"
AfterSearch(mapped) == IF Len(mapped) = 0 THEN "destroy" ELSE "complete"

\* const rows = await execute(connection, {sqlText, binds}); the statement
\* embeds the question and searches; chunks = rows.map(mapChunkRow)
QuerySearch(c) ==
    /\ calls[c].pc = "search"
    /\ \/ Update(c, [pc |-> AfterStep(FALSE, "complete"),
                     error |-> ErrorAfter(c, FALSE, "searchFailed"),
                     limit |-> Limit(calls[c].topK),
                     ext |-> Ext(c, "search")])
       \/ LET rows == SearchRows(calls[c].fileIds, Limit(calls[c].topK))
              mapped == [i \in 1..Len(rows) |-> MapChunkRow(rows[i])]
          IN Update(c, [pc |-> AfterSearch(mapped),
                        limit |-> Limit(calls[c].topK),
                        rows |-> mapped,
                        result |-> IF AfterSearch(mapped) = "destroy"
                                   THEN <<[answer |-> NoRelevantResults,
                                           chunks |-> <<>>]>>
                                   ELSE <<>>,
                        ext |-> Ext(c, "search")])
    /\ UNCHANGED <<tmpDirs, stageObjs, documents, vectors, infrastructureReady>>

\* JavaScript values a completion response is made of: null or undefined, a
\* number (7), a string, an array, and an object whose fields are
\* <<key, value>> pairs
JNull == [t |-> "null"]
JNum == [t |-> "number"]
JStr(s) == [t |-> "string", s |-> s]
JArr(items) == [t |-> "array", items |-> items]
JObj(fields) == [t |-> "object", fields |-> fields]

\* key in value
Has(value, key) ==
    /\ value.t = "object"
    /\ \E i \in 1..Len(value.fields) : value.fields[i][1] = key

\* value?.key: undefined when value has no such field
Get(value, key) ==
    IF Has(value, key)
    THEN value.fields[CHOOSE i \in 1..Len(value.fields) : value.fields[i][1] = key][2]
    ELSE JNull

\* the truthiness of a value
JTruthy(value) ==
    CASE value.t = "null" -> FALSE
      [] value.t = "string" -> value.s # <<>>
      [] OTHER -> TRUE

\* the string that join('') makes of an entry
RECURSIVE ToStr(_)
ToStr(value) ==
    CASE value.t = "null" -> <<>>
      [] value.t = "string" -> value.s
      [] value.t = "number" -> <<"7">>
      [] value.t = "array" ->
            IF value.items = <<>> THEN <<>>
            ELSE IF Len(value.items) = 1 THEN ToStr(value.items[1])
            ELSE ToStr(value.items[1]) \o <<",">> \o ToStr(JArr(Tail(value.items)))
      [] OTHER -> <<"[object Object]">>

\* entries.join('')
RECURSIVE Join(_)
Join(entries) ==
    IF entries = <<>> THEN <<>> ELSE ToStr(Head(entries)) \o Join(Tail(entries))

\* the outcome of extractCompletion: the string returned, or a TypeError
Returned(text) == [threw |-> FALSE, text |-> text]
Threw == [threw |-> TRUE, text |-> <<>>]

\* chunk.text || ''
TextOrEmpty(chunk) ==
    IF JTruthy(Get(chunk, "text")) THEN Get(chunk, "text") ELSE JStr(<<>>)

\* first.message.content.map((chunk) => chunk.text || '').join('').trim():
\* reading .text of null or undefined throws
ChoiceFragments(content) ==
    IF \E i \in 1..Len(content) : content[i].t = "null"
    THEN Threw
    ELSE Returned(Trim(Join([i \in 1..Len(content) |-> TextOrEmpty(content[i])])))

\* content.map((chunk) => typeof chunk === 'string' ? chunk
\*                                   : chunk?.text || '').join('').trim()
ContentFragments(content) ==
    Returned(Trim(Join([i \in 1..Len(content) |->
                           IF content[i].t = "string" THEN content[i]
                           ELSE TextOrEmpty(content[i])])))

\* extractCompletion
ExtractCompletionOfString(value) ==
    IF value.t = "string" THEN Returned(Trim(value.s)) ELSE Returned(<<>>)
ExtractCompletion(value) ==
    LET choices == Get(value, "choices")
        first == IF choices.t = "array" /\ Len(choices.items) > 0
                 THEN choices.items[1] ELSE JNull
        firstContent == Get(Get(first, "message"), "content")
        content == Get(value, "content")
    IN CASE value.t = "null" -> Returned(<<>>)
         [] value.t = "string" -> Returned(Trim(value.s))
         [] value.t \in {"object", "array"} ->
               IF JTruthy(firstContent) /\ firstContent.t = "array"
               THEN ChoiceFragments(firstContent.items)
               ELSE IF JTruthy(firstContent) /\ firstContent.t = "string"
               THEN Returned(Trim(firstContent.s))
               ELSE IF Has(value, "response") /\ Get(value, "response").t = "string"
               THEN Returned(Trim(Get(value, "response").s))
               ELSE IF Has(value, "content") /\ content.t = "string"
               THEN Returned(Trim(content.s))
               ELSE IF Has(value, "content") /\ content.t = "array"
               THEN ContentFragments(content.items)
               ELSE Returned(<<>>)
         [] OTHER -> Returned(<<>>)

\* the most entries of a fragment array
MaxFragments == 2

\* the strings of a response, the entries of a fragment array, and the
\* values of a content field
Strings == {<<>>, <<" ">>, <<"x">>, <<" ", "x">>}
Fragment(text) == JObj(<<<<"text", JStr(text)>>>>)
Fragments == {JNull, JStr(<<"x">>), JObj(<<>>), Fragment(<<"y">>)}
FragmentArrays ==
    UNION {{JArr(items) : items \in [1..n -> Fragments]} : n \in 0..MaxFragments}
Contents == {JNull, JNum} \cup {JStr(text) : text \in Strings} \cup FragmentArrays

\* {choices: [{message: {content}}]}
ChoicesOf(content) ==
    <<"choices", JArr(<<JObj(<<<<"message", JObj(<<<<"content", content>>>>)>>>>)>>)>>

\* the RESPONSE column of the completion: completionRows[0]?.RESPONSE
Completions ==
    {JNull, JNum, JArr(<<>>), JObj(<<>>)}
    \cup {JStr(text) : text \in Strings}
    \cup {JObj(<<ChoicesOf(content)>>) : content \in Contents}
    \cup {JObj(<<<<"choices", entries>>>>) :
             entries \in {JNull, JArr(<<>>), JArr(<<JNull>>), JArr(<<JObj(<<>>)>>),
                          JArr(<<JObj(<<<<"message", JNull>>>>)>>)}}
    \cup {JObj(<<<<"response", r>>>>) : r \in {JNull, JNum, JStr(<<"x">>), JStr(<<" ", "x">>)}}
    \cup {JObj(<<<<"content", content>>>>) : content \in Contents}
    \cup {JObj(<<ChoicesOf(content), <<"response", JStr(<<"r">>)>>>>) :
             content \in {JNull, JStr(<<>>), JStr(<<"x">>)}}
    \cup {JObj(<<<<"response", r>>, <<"content", JStr(<<"c">>)>>>>) :
             r \in {JNum, JStr(<<"r">>)}}

\* buildPrompt(question, chunks): one Source block per chunk, in order; the
\* prompt is recorded as the chunks its context is built from
BuildPrompt(question, mapped) == mapped

\* const completionRows = await execute(...complete...); answer =
\* extractCompletion(completionRows[0]?.RESPONSE) || 'No answer generated.'
QueryComplete(c) ==
    /\ calls[c].pc = "complete"
    /\ \/ Update(c, [pc |-> AfterStep(FALSE, "destroy"),
                     error |-> ErrorAfter(c, FALSE, "completionFailed"),
                     prompt |-> BuildPrompt(calls[c].question, calls[c].rows),
                     ext |-> Ext(c, "complete")])
       \/ \E completion \in Completions :
             LET extracted == ExtractCompletion(completion)
             IN Update(c, [pc |-> AfterStep(~extracted.threw, "destroy"),
                           error |-> ErrorAfter(c, ~extracted.threw, "typeError"),
                           prompt |-> BuildPrompt(calls[c].question, calls[c].rows),
                           completion |-> <<completion>>,
                           result |-> IF extracted.threw THEN <<>>
                                      ELSE <<[answer |-> Or(extracted.text,
                                                            NoAnswerGenerated),
                                              chunks |-> calls[c].rows]>>,
                           ext |-> Ext(c, "complete")])
    /\ UNCHANGED <<tmpDirs, stageObjs, documents, vectors, infrastructureReady>>

\* listDocuments(): its first await is the connect of withSnowflakeConnection
ListCall ==
    [pc |-> "connect"] @@ CallBase("list") @@ NoIngestArgs @@ NoQueryArgs

\* one row of listDocuments
MapDocumentRow(row) ==
    [fileId |-> row.FILE_ID,
     filename |-> row.FILENAME,
     stagePath |-> ExtractRelativeStagePath(row.STAGE_PATH),
     stageReference |->
         Or(row.STAGE_REFERENCE,
            Or(ExtractStageReferenceFromPath(row.STAGE_PATH), STAGE_REFERENCE)),
     chunkCount |-> row.CHUNK_COUNT]

\* const rows = await execute(connection, {select ... from TABLE_DOCUMENTS});
\* return rows.map(...)
ListSelect(c) ==
    /\ calls[c].pc = "select"
    /\ \/ Update(c, [pc |-> AfterStep(FALSE, "destroy"),
                     error |-> ErrorAfter(c, FALSE, "selectFailed"),
                     ext |-> Ext(c, "select")])
       \/ Update(c, [pc |-> "destroy",
                     result |-> <<[documents |->
                                      [i \in 1..Len(documents) |->
                                          MapDocumentRow(documents[i])]]>>,
                     ext |-> Ext(c, "select")])
    /\ UNCHANGED <<tmpDirs, stageObjs, documents, vectors, infrastructureReady>>

\* the fallback messages of the routes POST /api/upload and POST /api/query,
\* and the message of GET /api/documents
FailedToUpload == "Failed to upload PDF."
UnableToLoadDocuments == "Unable to load documents from Snowflake."
UnableToRunQuestion == "Unable to run the question against Snowflake."

\* error?.message: an error raised in a call carries its own message, here
\* named after the error
MessageOf(err) == err

\* a || b on strings
OrString(a, b) == IF a # "" THEN a ELSE b

\* the catch of the routes: res.status(500).json({message: error?.message ||
\* fallback}), and the fixed message of GET /api/documents
RouteMessage(kind, err) ==
    CASE kind = "ingest" -> OrString(MessageOf(err), FailedToUpload)
      [] kind = "query" -> OrString(MessageOf(err), UnableToRunQuestion)
      [] OTHER -> UnableToLoadDocuments

\* the route answers the request when its call has returned or thrown
RouteRespond(c) ==
    /\ calls[c].pc \in {"returned", "thrown"}
    /\ calls[c].reply = <<>>
    /\ Update(c, [reply |-> IF calls[c].pc = "returned"
                            THEN <<[status |-> 200, message |-> ""]>>
                            ELSE <<[status |-> 500,
                                    message |-> RouteMessage(calls[c].kind,
                                                             calls[c].error)]>>])
    /\ UNCHANGED <<tmpDirs, stageObjs, documents, vectors, infrastructureReady>>

----------------------------------------------------------------------------
(* The specifications of the calls against the store *)

\* two calls, each an ingestPdf, a queryKnowledgeBase or a listDocuments, on
\* an empty store
InitIngest ==
    /\ calls \in [Calls -> {IngestCall(1), IngestCall(2),
                            QueryCall(<<"a">>, <<>>, <<>>), ListCall}]
    /\ \A c \in Calls : calls[c].kind = "ingest" => calls[c] = IngestCall(c)
    /\ tmpDirs = {}
    /\ stageObjs = {}
    /\ documents = <<>>
    /\ vectors = <<>>
    /\ infrastructureReady = FALSE
    /\ ChunkIdle
    /\ pages = <<>> /\ chunkSize = 1 /\ chunkOverlap = 0
    /\ StreamIdle

NextIngest ==
    \/ \E c \in DOMAIN calls : IngestChunkPdf(c) /\ UNCHANGED <<chunkVars, streamVars>>
    \/ \E c \in DOMAIN calls : IngestMkdtemp(c) /\ UNCHANGED <<chunkVars, streamVars>>
    \/ \E c \in DOMAIN calls : IngestWriteFile(c) /\ UNCHANGED <<chunkVars, streamVars>>
    \/ \E c \in DOMAIN calls : Connect(c) /\ UNCHANGED <<chunkVars, streamVars>>
    \/ \E c \in DOMAIN calls : EnsureInfrastructure(c) /\ UNCHANGED <<chunkVars, streamVars>>
    \/ \E c \in DOMAIN calls : BootstrapDone(c) /\ UNCHANGED <<chunkVars, streamVars>>
    \/ \E c \in DOMAIN calls : IngestUpload(c) /\ UNCHANGED <<chunkVars, streamVars>>
    \/ \E c \in DOMAIN calls : IngestPersistDocument(c) /\ UNCHANGED <<chunkVars, streamVars>>
    \/ \E c \in DOMAIN calls : IngestPersistChunk(c) /\ UNCHANGED <<chunkVars, streamVars>>
    \/ \E c \in DOMAIN calls : IngestHandlerReturn(c) /\ UNCHANGED <<chunkVars, streamVars>>
    \/ \E c \in DOMAIN calls : Destroy(c) /\ UNCHANGED <<chunkVars, streamVars>>
    \/ \E c \in DOMAIN calls : IngestCleanup(c) /\ UNCHANGED <<chunkVars, streamVars>>
    \/ \E c \in DOMAIN calls : QueryStart(c) /\ UNCHANGED <<chunkVars, streamVars>>
    \/ \E c \in DOMAIN calls : QuerySearch(c) /\ UNCHANGED <<chunkVars, streamVars>>
    \/ \E c \in DOMAIN calls : QueryComplete(c) /\ UNCHANGED <<chunkVars, streamVars>>
    \/ \E c \in DOMAIN calls : ListSelect(c) /\ UNCHANGED <<chunkVars, streamVars>>
    \/ \E c \in DOMAIN calls : RouteRespond(c) /\ UNCHANGED <<chunkVars, streamVars>>

SpecIngest == InitIngest /\ [][NextIngest]_vars

\* the most rows TABLE_VECTORS holds when a query starts, and the largest
\* topK a caller passes
MaxStoreRows == 12
MaxTopK == 12

\* the arguments of queryKnowledgeBase
Questions == {Null, <<>>, <<" ">>, <<"a">>, <<" ", "a">>}
FileIdLists == {<<>>, <<U1>>, <<U2>>}
TopKs == {<<>>} \cup {<<k>> : k \in (0 - 1)..MaxTopK}

\* a store of two documents whose n chunk rows alternate between them
StoredVectors(n) ==
    [i \in 1..n |-> MkVectorRow(IF i % 2 = 1 THEN U1 ELSE U2, (i - 1) \div 2,
                                ChunkListOf(n)[i])]

\* one queryKnowledgeBase call on a store that holds documents
InitQuery ==
    /\ \E question \in Questions, fileIds \in FileIdLists, topK \in TopKs :
          calls = <<QueryCall(question, fileIds, topK)>>
    /\ tmpDirs = {}
    /\ stageObjs = {CanonPath, U2 \o <<"/">> \o Name}
    /\ documents = <<MkDocRow(U1, Name, CanonPath, 1),
                     MkDocRow(U2, Name, U2 \o <<"/">> \o Name, 1)>>
    /\ \E n \in 0..MaxStoreRows : vectors = StoredVectors(n)
    /\ infrastructureReady \in BOOLEAN
    /\ ChunkIdle
    /\ pages = <<>> /\ chunkSize = 1 /\ chunkOverlap = 0
    /\ StreamIdle

NextQuery ==
    \/ \E c \in DOMAIN calls : QueryStart(c) /\ UNCHANGED <<chunkVars, streamVars>>
    \/ \E c \in DOMAIN calls : Connect(c) /\ UNCHANGED <<chunkVars, streamVars>>
    \/ \E c \in DOMAIN calls : EnsureInfrastructure(c) /\ UNCHANGED <<chunkVars, streamVars>>
    \/ \E c \in DOMAIN calls : BootstrapDone(c) /\ UNCHANGED <<chunkVars, streamVars>>
    \/ \E c \in DOMAIN calls : QuerySearch(c) /\ UNCHANGED <<chunkVars, streamVars>>
    \/ \E c \in DOMAIN calls : QueryComplete(c) /\ UNCHANGED <<chunkVars, streamVars>>
    \/ \E c \in DOMAIN calls : Destroy(c) /\ UNCHANGED <<chunkVars, streamVars>>
    \/ \E c \in DOMAIN calls : RouteRespond(c) /\ UNCHANGED <<chunkVars, streamVars>>

SpecQuery == InitQuery /\ [][NextQuery]_vars

----------------------------------------------------------------------------
(* An upload followed by the retrieval of the uploaded document *)

\* the longest stem of an original file name
MaxNameLen == 2

\* original file names: a stem, with or without the extension; "$" is a
\* character sanitizeFilename replaces
NameChars == {"r", "R", ".", " ", "$"}
Stems == UNION {[1..n -> NameChars] : n \in 0..MaxNameLen}
OriginalNames ==
    {Null, <<"R", ".", "P", "D", "F">>}
        \cup {stem \o ext : stem \in Stems, ext \in {<<>>, DotPdf}}

\* one ingestPdf call on an empty store
InitRetrieve ==
    /\ \E originalName \in OriginalNames : calls = <<IngestCallOf(1, originalName)>>
    /\ tmpDirs = {}
    /\ stageObjs = {}
    /\ documents = <<>>
    /\ vectors = <<>>
    /\ infrastructureReady = FALSE
    /\ ChunkIdle
    /\ pages = <<>> /\ chunkSize = 1 /\ chunkOverlap = 0
    /\ StreamIdle

\* GET /api/pdf?identifier=<stagePath>[&fileId=<fileId>] with the stagePath
\* and the fileId of the summary POST /api/upload answered with
RequestStored ==
    /\ spc = "idle"
    /\ \E c \in DOMAIN calls :
          /\ calls[c].kind = "ingest"
          /\ calls[c].pc = "returned"
          /\ calls[c].reply # <<>>
          /\ reqIdentifier' = calls[c].resolvedStagePath
          /\ reqFileId' \in {Null, calls[c].fileId}
    /\ reqStage' = Null
    /\ docRows' = documents
    /\ spc' = "start"
    /\ UNCHANGED <<pointer, candidates, candIdx, lastError, errors, thrown,
                   headers, response, log>>
    /\ UNCHANGED <<chunkVars, storeVars>>

NextRetrieve ==
    \/ \E c \in DOMAIN calls : IngestChunkPdf(c) /\ UNCHANGED <<chunkVars, streamVars>>
    \/ \E c \in DOMAIN calls : IngestMkdtemp(c) /\ UNCHANGED <<chunkVars, streamVars>>
    \/ \E c \in DOMAIN calls : IngestWriteFile(c) /\ UNCHANGED <<chunkVars, streamVars>>
    \/ \E c \in DOMAIN calls : Connect(c) /\ UNCHANGED <<chunkVars, streamVars>>
    \/ \E c \in DOMAIN calls : EnsureInfrastructure(c) /\ UNCHANGED <<chunkVars, streamVars>>
    \/ \E c \in DOMAIN calls : BootstrapDone(c) /\ UNCHANGED <<chunkVars, streamVars>>
    \/ \E c \in DOMAIN calls : IngestUpload(c) /\ UNCHANGED <<chunkVars, streamVars>>
    \/ \E c \in DOMAIN calls : IngestPersistDocument(c) /\ UNCHANGED <<chunkVars, streamVars>>
    \/ \E c \in DOMAIN calls : IngestPersistChunk(c) /\ UNCHANGED <<chunkVars, streamVars>>
    \/ \E c \in DOMAIN calls : IngestHandlerReturn(c) /\ UNCHANGED <<chunkVars, streamVars>>
    \/ \E c \in DOMAIN calls : Destroy(c) /\ UNCHANGED <<chunkVars, streamVars>>
    \/ \E c \in DOMAIN calls : IngestCleanup(c) /\ UNCHANGED <<chunkVars, streamVars>>
    \/ \E c \in DOMAIN calls : RouteRespond(c) /\ UNCHANGED <<chunkVars, streamVars>>
    \/ RequestStored
    \/ StreamFetchPointer
    \/ StreamBuildCandidates
    \/ StreamPresign
    \/ StreamFetch
    \/ StreamBuffer
    \/ StreamExhausted

SpecRetrieve == InitRetrieve /\ [][NextRetrieve]_vars

----------------------------------------------------------------------------
(* Properties of the identifier resolver *)

Resolved == spc = "presign"

\* C6: the list returned by buildStageCandidates holds no two entries with
\* the same (stageReference, identifier) pair.
C6_NoDuplicateCandidates ==
    \A i, j \in 1..Len(candidates) :
        i # j => <<candidates[i].stageReference, candidates[i].identifier>>
                    # <<candidates[j].stageReference, candidates[j].identifier>>

\* the request names the stagePath of the known document: the rules of the
\* document repeat those of the request, and only two candidates remain
C6_Witness ==
    /\ Resolved
    /\ pointer.found
    /\ reqIdentifier = CanonPath
    /\ pointer.stagePath = CanonPath
    /\ Len(candidates) = 2

CanonicalOf(p) == p.fileId \o <<"/">> \o p.filename

\* C7 as stated: without a request identifier and with a known document the
\* first candidate is "<fileId>/<filename>", whatever stagePath is recorded.
C7_FirstIsCanonical ==
    (Resolved /\ ~Truthy(reqIdentifier) /\ pointer.found)
        => candidates[1].identifier = CanonicalOf(pointer)

\* C7 amended: without a request identifier and with a known document the
\* first candidate is the recorded stagePath of the document when one is
\* recorded, and "<fileId>/<filename>" when none is recorded.
C7_FirstIsStagePathElseCanonical ==
    (Resolved /\ ~Truthy(reqIdentifier) /\ pointer.found)
        => candidates[1].identifier =
              (IF Truthy(pointer.stagePath) THEN pointer.stagePath
               ELSE CanonicalOf(pointer))

\* a known document whose recorded stagePath is not "<fileId>/<filename>"
C7_Witness ==
    /\ Resolved
    /\ ~Truthy(reqIdentifier)
    /\ pointer.found
    /\ pointer.stagePath = RewrittenPath
    /\ candidates[1].identifier = RewrittenPath

\* the stage a rule's candidate is recorded with
RuleStage(ref) ==
    SanitizeStageReference(
        Coalesce(ref, Coalesce(Opt(pointer, "stageReference"),
                               Coalesce(reqStage, STAGE_REFERENCE)))).value

RuleCandidate(id, ref) == [identifier |-> id, stageReference |-> RuleStage(ref)]

\* the candidates of the rules in priority order, duplicates included; first
\* is the form the request identifier is listed in
RuleList(first) ==
    LET legacyRequest == BuildLegacyCandidateIdentifier(reqIdentifier, pointer)
        inferred == ExtractLegacyTailInfo(reqIdentifier)
        inferredCanonical == inferred.fileId \o <<"/">> \o inferred.filename
        legacyPointer == BuildLegacyCandidateIdentifier(pointer.stagePath, pointer)
        canonical == CanonicalOf(pointer)
    IN (IF Truthy(reqIdentifier) /\ Trim(reqIdentifier) # <<>>
        THEN <<RuleCandidate(first, reqStage)>> ELSE <<>>)
       \o (IF Truthy(reqIdentifier) /\ Truthy(legacyRequest)
           THEN <<RuleCandidate(legacyRequest, reqStage)>> ELSE <<>>)
       \o (IF Truthy(reqIdentifier) /\ inferred.found
           THEN <<RuleCandidate(inferredCanonical, reqStage),
                  RuleCandidate(inferredCanonical \o <<"/">> \o inferred.fileId
                                    \o <<"-">> \o inferred.filename, reqStage)>>
           ELSE <<>>)
       \o (IF pointer.found /\ Truthy(pointer.stagePath)
           THEN <<RuleCandidate(pointer.stagePath, pointer.stageReference)>>
           ELSE <<>>)
       \o (IF pointer.found /\ Truthy(pointer.stagePath) /\ Truthy(legacyPointer)
           THEN <<RuleCandidate(legacyPointer, pointer.stageReference)>>
           ELSE <<>>)
       \o (IF pointer.found
           THEN <<RuleCandidate(canonical, pointer.stageReference),
                  RuleCandidate(canonical \o <<"/">> \o pointer.fileId \o <<"-">>
                                    \o pointer.filename, pointer.stageReference)>>
           ELSE <<>>)

\* a list without the later occurrences of an entry
RECURSIVE DedupFirst(_, _)
DedupFirst(list, kept) ==
    IF list = <<>> THEN kept
    ELSE IF \E k \in 1..Len(kept) : kept[k] = Head(list)
         THEN DedupFirst(Tail(list), kept)
         ELSE DedupFirst(Tail(list), Append(kept, Head(list)))

\* C8 as stated: the candidates are those of the rules in priority order, and
\* the request identifier verbatim is first whenever one is supplied.
C8_VerbatimFirstInRuleOrder ==
    Resolved =>
        /\ Truthy(reqIdentifier) => candidates[1].identifier = reqIdentifier
        /\ candidates = DedupFirst(RuleList(reqIdentifier), <<>>)

\* C8 amended: the candidates are those of the rules in priority order, the
\* request identifier being listed with its surrounding whitespace trimmed;
\* it is first whenever a non-blank one is supplied.
C8_TrimmedFirstInRuleOrder ==
    Resolved =>
        /\ (Truthy(reqIdentifier) /\ Trim(reqIdentifier) # <<>>)
              => candidates[1].identifier = Trim(reqIdentifier)
        /\ candidates = DedupFirst(RuleList(Trim(reqIdentifier)), <<>>)

\* a request identifier with a leading space and a "<uuid>-<rest>" last
\* segment, for a known document recorded under another stage: every rule
\* contributes
C8_Witness ==
    /\ Resolved
    /\ pointer.found
    /\ Truthy(pointer.stagePath)
    /\ reqIdentifier # Trim(reqIdentifier)
    /\ ExtractLegacyTailInfo(reqIdentifier).found
    /\ Len(candidates) = 8

\* the request identifier without surrounding whitespace and trailing slashes
Stripped == StripTrailingSlashes(Trim(reqIdentifier))

\* the fileId and filename the legacy form is built from: those of the known
\* document, or else the last two path segments of the identifier
LegacyIdOf ==
    LET segments == SplitSlash(Stripped)
    IN Or(Opt(pointer, "fileId"),
          IF Len(segments) >= 2 THEN segments[Len(segments) - 1] ELSE <<>>)
LegacyNameOf ==
    LET segments == SplitSlash(Stripped)
    IN Or(Opt(pointer, "filename"),
          IF Len(segments) >= 2 THEN segments[Len(segments)] ELSE <<>>)

LegacyFormOf(identifier, fileId, filename) ==
    identifier \o <<"/">> \o fileId \o <<"-">> \o filename

\* the identifier is "<id>/<name>/<id>-<name>"
InLegacyForm(identifier) ==
    LET segments == SplitSlash(identifier)
    IN /\ Len(segments) = 3
       /\ segments[1] # <<>> /\ segments[2] # <<>>
       /\ segments[3] = segments[1] \o <<"-">> \o segments[2]

\* C26 as stated: the legacy combined form is yielded exactly when the
\* identifier holds a path separator and does not end in
\* "/<fileId>-<filename>"; an identifier already in legacy combined form
\* yields none, with or without a known document.
C26_LegacyFormExactlyWhen ==
    (Resolved /\ Truthy(reqIdentifier)) =>
        /\ BuildLegacyCandidateIdentifier(reqIdentifier, pointer) =
              (IF /\ Includes(Stripped, <<"/">>)
                  /\ ~EndsWith(Stripped, <<"/">> \o LegacyIdOf \o <<"-">> \o LegacyNameOf)
               THEN LegacyFormOf(Stripped, LegacyIdOf, LegacyNameOf)
               ELSE Null)
        /\ InLegacyForm(Stripped) =>
              BuildLegacyCandidateIdentifier(reqIdentifier, pointer) = Null

\* C26 amended: the legacy combined form is yielded exactly when the
\* identifier holds a path separator, fileId and filename are both non-empty
\* and the identifier does not end in "/<fileId>-<filename>"; an identifier
\* already in the legacy combined form of the known document yields none,
\* and without a known document it yields "<identifier>/<name>-<id>-<name>".
C26_LegacyFormExactlyWhenNamed ==
    (Resolved /\ Truthy(reqIdentifier)) =>
        /\ BuildLegacyCandidateIdentifier(reqIdentifier, pointer) =
              (IF /\ Includes(Stripped, <<"/">>)
                  /\ LegacyIdOf # <<>> /\ LegacyNameOf # <<>>
                  /\ ~EndsWith(Stripped, <<"/">> \o LegacyIdOf \o <<"-">> \o LegacyNameOf)
               THEN LegacyFormOf(Stripped, LegacyIdOf, LegacyNameOf)
               ELSE Null)
        /\ (/\ InLegacyForm(Stripped)
            /\ Opt(pointer, "fileId") = SplitSlash(Stripped)[1]
            /\ Opt(pointer, "filename") = SplitSlash(Stripped)[2]) =>
              /\ BuildLegacyCandidateIdentifier(reqIdentifier, pointer) = Null
              /\ \A i \in 1..Len(candidates) :
                    ~(/\ StartsWith(candidates[i].identifier, Stripped \o <<"/">>)
                      /\ Len(candidates[i].identifier) > Len(Stripped) + 1)
        /\ (InLegacyForm(Stripped) /\ ~pointer.found) =>
              /\ BuildLegacyCandidateIdentifier(reqIdentifier, pointer) =
                    LegacyFormOf(Stripped, SplitSlash(Stripped)[2], SplitSlash(Stripped)[3])
              /\ \E i \in 1..Len(candidates) :
                    candidates[i].identifier =
                        LegacyFormOf(Stripped, SplitSlash(Stripped)[2], SplitSlash(Stripped)[3])

\* the request names the legacy combined form of the known document
C26_Witness ==
    /\ Resolved
    /\ reqIdentifier = LegacyFormOf(CanonPath, U1, Name)
    /\ pointer.found
    /\ pointer.fileId = U1 /\ pointer.filename = Name
    /\ BuildLegacyCandidateIdentifier(reqIdentifier, pointer) = Null
    /\ BuildLegacyCandidateIdentifier(CanonPath, pointer) = reqIdentifier

----------------------------------------------------------------------------
(* Properties of the streaming resolver *)

\* the positions of log before k that hold the event e
Before(k, e) == {m \in 1..(k - 1) : log[m] = e}

\* C9: the candidates are tried one after another in list order and the loop
\* short-circuits: a candidate gets a presign request only after every earlier
\* candidate has failed, a fetch only after its own presign, nothing is
\* presigned or fetched after the first success, and no candidate is presigned
\* or fetched twice in a request.
C9_SequentialShortCircuit ==
    \A k \in 1..Len(log) :
        LET e == log[k]
        IN e.op \in {"presign", "fetch"} =>
              /\ e.i \in 1..Len(candidates)
              /\ \A j \in 1..(e.i - 1) : Before(k, [op |-> "fail", i |-> j]) # {}
              /\ e.op = "fetch" => Before(k, [op |-> "presign", i |-> e.i]) # {}
              /\ \A m \in 1..(k - 1) :
                    /\ log[m].op # "ok"
                    /\ log[m].op = e.op =>
                          /\ log[m].i < e.i
                          /\ candidates[log[m].i] # candidates[e.i]

\* the third candidate succeeded after the first failed at the presign and
\* the second at the fetch
C9_Witness ==
    /\ spc = "streamed"
    /\ candIdx = 3
    /\ Before(Len(log), [op |-> "presign", i |-> 1]) # {}
    /\ Before(Len(log), [op |-> "fetch", i |-> 1]) = {}
    /\ Before(Len(log), [op |-> "fetch", i |-> 2]) # {}
    /\ log[Len(log)] = [op |-> "ok", i |-> 3]

\* C10: when the first N-1 of N candidates fail and the Nth succeeds, the
\* response is a success whose provenance headers describe the Nth
\* candidate: X-Pdf-Stage-Path its identifier, X-Pdf-Stage-Reference its stage
\* reference, X-Pdf-File-Id the fileId of the document.
C10_ProvenanceOfLastCandidate ==
    (spc = "streamed" /\ candIdx = Len(candidates)) =>
        /\ response.status = 200
        /\ headers.set
        /\ headers.stagePath = candidates[Len(candidates)].identifier
        /\ headers.stageReference = candidates[Len(candidates)].stageReference
        /\ pointer.found => headers.fileId = pointer.fileId

\* the last of at least three candidates of a known document succeeded after
\* the one before it failed at the download
C10_Witness ==
    /\ spc = "streamed"
    /\ Len(candidates) >= 3
    /\ candIdx = Len(candidates)
    /\ pointer.found
    /\ lastError = "downloadFailed"
    /\ headers.stagePath # candidates[1].identifier

\* the loop ran through a non-empty candidate list without a success
AllCandidatesFailed ==
    /\ spc = "failed"
    /\ candidates # <<>>
    /\ candIdx > Len(candidates)

\* C11: if every candidate of a stream request fails, streamPdfToResponse
\* throws the error caught for the last candidate tried, not the first one
\* and not the generic "unable to retrieve" error, which is thrown only when
\* no error was recorded.
C11_ThrowsLastRecordedError ==
    /\ AllCandidatesFailed =>
          /\ Len(errors) = Len(candidates)
          /\ thrown = errors[Len(errors)]
    /\ (spc = "failed" /\ thrown = "unableToRetrieve") => errors = <<>>

\* three candidates failed, the first and the last with different errors
C11_Witness ==
    /\ AllCandidatesFailed
    /\ Len(errors) >= 3
    /\ errors[1] = "badIdentifier"
    /\ errors[Len(errors)] = "downloadFailed"
    /\ thrown = "downloadFailed"

\* the request identifier does not pass sanitizeIdentifier
MalformedIdentifier ==
    /\ Truthy(reqIdentifier)
    /\ ~SanitizeIdentifier(reqIdentifier).ok

\* C12: a stream request whose identifier is malformed is answered with the
\* client error of the identifier check, and no presign or fetch is
\* performed for any candidate of the request, also when the fileId of a
\* known document comes with it.
C12_MalformedIdentifierNeverTried ==
    (MalformedIdentifier /\ thrown # "lookupRejected") =>
        /\ \A k \in 1..Len(log) : log[k].op \notin {"presign", "fetch"}
        /\ spc # "streamed"
        /\ spc = "failed" =>
              /\ thrown \in {"badIdentifier", "dotDot", "badStage"}
              /\ response.status = 400

\* the request's stage reference does not pass sanitizeStageReference
InvalidStage ==
    /\ reqStage # Null
    /\ ~SanitizeStageReference(reqStage).ok

\* a valid request stage written without the leading "@"
UnprefixedStage ==
    /\ reqStage # Null
    /\ SanitizeStageReference(reqStage).ok
    /\ Truthy(Trim(reqStage))
    /\ ~StartsWith(Trim(reqStage), <<"@">>)

\* C13: a stream request whose stage reference has characters outside the
\* allow-list is rejected with the client error of the stage check whatever
\* identifier and fileId come with it, and no candidate is built or tried
\* for it; a valid stage reference without the leading "@" is used with "@"
\* prefixed.
C13_InvalidStageAlwaysRejected ==
    /\ (InvalidStage /\ thrown # "lookupRejected") =>
          /\ candidates = <<>>
          /\ spc = "failed" => (thrown = "badStage" /\ response.status = 400)
    /\ (UnprefixedStage /\ candidates # <<>> /\ Truthy(Trim(reqIdentifier))) =>
          candidates[1].stageReference = <<"@">> \o Trim(reqStage)

----------------------------------------------------------------------------
(* Properties of ingestPdf *)

IngestCalls == {c \in DOMAIN calls : calls[c].kind = "ingest"}

Ended(c) == calls[c].pc \in {"returned", "thrown"}

\* what the call c left behind: temp directories, objects, rows
TempDirsOf(c) == {d \in tmpDirs : d.owner = c}
ObjectsOf(c) == {o \in stageObjs : StartsWith(o, calls[c].fileId \o <<"/">>)}
DocumentsOf(c) == SelectSeq(documents, LAMBDA d : d.FILE_ID = calls[c].fileId)
VectorsOf(c) == SelectSeq(vectors, LAMBDA v : v.FILE_ID = calls[c].fileId)

\* chunkPdf returned to the call c, and returned no chunk
ZeroChunks(c) ==
    /\ calls[c].pc # "start"
    /\ calls[c].error # "parseFailed"
    /\ calls[c].chunks = <<>>

\* C14: an ingestPdf call whose PDF yields zero chunks fails with the "no
\* readable text" error and before any side effect: it writes no temporary
\* file, issues no external call, uploads no object and inserts no Document
\* or Chunk row.
C14_ZeroChunksFailBeforeSideEffects ==
    \A c \in IngestCalls :
        ZeroChunks(c) =>
            /\ calls[c].pc = "thrown"
            /\ calls[c].error = "noReadableText"
            /\ calls[c].ext = <<>>
            /\ TempDirsOf(c) = {}
            /\ ObjectsOf(c) = {}
            /\ DocumentsOf(c) = <<>>
            /\ VectorsOf(c) = <<>>

\* one call failed for want of chunks while the other stored its document
C14_Witness ==
    \E c, o \in IngestCalls :
        /\ ZeroChunks(c)
        /\ calls[c].error = "noReadableText"
        /\ calls[o].pc = "returned"
        /\ Len(vectors) = 2

\* C15: when ingestPdf has returned or thrown, no temporary file or
\* directory the call created remains, whichever step failed.
C15_NoTempLeftBehind ==
    \A c \in IngestCalls : Ended(c) => TempDirsOf(c) = {}

\* the external calls of c among put, insertDocument and insertChunk
StoreSteps(c) ==
    SelectSeq(calls[c].ext, LAMBDA op : op \in {"put", "insertDocument", "insertChunk"})

\* C16: ingestPdf uploads the object, inserts the Document row and inserts
\* the Chunk rows in that order, each step only after the one before it
\* succeeded; so, under every interleaving of ingest and query calls, every
\* stored Chunk row has the fileId of a stored Document row and every stored
\* Document row names an object that was uploaded.
C16_UploadThenDocumentThenChunks ==
    /\ \A c \in IngestCalls :
          LET steps == StoreSteps(c)
          IN /\ \A i \in 1..Len(steps) :
                    steps[i] = IF i = 1 THEN "put"
                               ELSE IF i = 2 THEN "insertDocument"
                               ELSE "insertChunk"
             /\ Len(steps) >= 2 => ObjectsOf(c) # {}
             /\ Len(steps) >= 3 => DocumentsOf(c) # <<>>
    /\ \A i \in 1..Len(vectors) :
          \E j \in 1..Len(documents) : documents[j].FILE_ID = vectors[i].FILE_ID
    /\ \A j \in 1..Len(documents) : documents[j].STAGE_PATH \in stageObjs

\* two ingests interleaved: the rows of the two documents alternate, one of
\* them stored under a name the store chose, while the other call is still
\* inserting
C16_Witness ==
    /\ Len(documents) = 2
    /\ Len(vectors) = 3
    /\ vectors[1].FILE_ID # vectors[2].FILE_ID
    /\ vectors[2].FILE_ID # vectors[3].FILE_ID
    /\ documents[1].STAGE_PATH = RewrittenPath
    /\ \E c \in IngestCalls : calls[c].pc = "persistChunks"

IsPrefix(a, b) == Len(a) <= Len(b) /\ SubSeq(b, 1, Len(a)) = a

\* the insert of a Chunk row of c rejected
ChunkInsertFailed(c) ==
    /\ calls[c].error = "insertFailed"
    /\ DocumentsOf(c) # <<>>

\* C17: Chunk rows are inserted one at a time in chunkIndex order; if the
\* insert of chunk k fails, ingestPdf fails, no chunk with index >= k is
\* stored then or later, and the Document row, which records the full
\* chunkCount, and the chunk rows 0..k-1 stay stored: no row is ever removed
\* or changed.
C17_PartialIngestNotRolledBack ==
    /\ [](\A c \in IngestCalls :
            /\ \A i \in 1..Len(VectorsOf(c)) :
                  /\ VectorsOf(c)[i].CHUNK_INDEX = i - 1
                  /\ VectorsOf(c)[i].chunk = calls[c].chunks[i]
            /\ ChunkInsertFailed(c) =>
                  /\ calls[c].pc \in {"destroy", "cleanup", "thrown"}
                  /\ Len(VectorsOf(c)) = calls[c].chunkOrder
                  /\ Len(VectorsOf(c)) < Len(calls[c].chunks)
                  /\ Len(DocumentsOf(c)) = 1
                  /\ DocumentsOf(c)[1].CHUNK_COUNT = Len(calls[c].chunks))
    /\ [][/\ IsPrefix(documents, documents')
          /\ IsPrefix(vectors, vectors')
          /\ Len(vectors') <= Len(vectors) + 1
          /\ \A c \in IngestCalls :
                calls[c].error # "none" =>
                    /\ calls'[c].error = calls[c].error
                    /\ SelectSeq(vectors', LAMBDA v : v.FILE_ID = calls[c].fileId)
                           = VectorsOf(c)]_vars

\* the second chunk insert of a call failed after the first was stored, and
\* the call threw
C17_Witness ==
    \E c \in IngestCalls :
        /\ ChunkInsertFailed(c)
        /\ calls[c].pc = "thrown"
        /\ Len(calls[c].chunks) = 2
        /\ Len(VectorsOf(c)) = 1
        /\ DocumentsOf(c)[1].CHUNK_COUNT = 2

----------------------------------------------------------------------------
(* Properties of queryKnowledgeBase *)

QueryCalls == {c \in DOMAIN calls : calls[c].kind = "query"}

\* how often the call c issued the external call op
Issued(c, op) == Len(SelectSeq(calls[c].ext, LAMBDA e : e = op))

\* the question is missing, empty or only whitespace
EmptyAfterTrim(q) == q = Null \/ \A i \in 1..Len(q) : IsWs(q[i])

\* C18: queryKnowledgeBase called with a question that is empty after
\* trimming (empty, whitespace-only or missing) fails with the "question
\* cannot be empty" error before any external call: it opens no connection
\* and issues no bootstrap, search (which embeds the question) or completion.
C18_EmptyQuestionFailsFirst ==
    \A c \in QueryCalls :
        (EmptyAfterTrim(calls[c].question) /\ calls[c].pc # "start") =>
            /\ calls[c].pc = "thrown"
            /\ calls[c].error = "emptyQuestion"
            /\ calls[c].ext = <<>>
            /\ calls[c].result = <<>>

\* a whitespace-only question was refused on a store that holds rows
C18_Witness ==
    \E c \in QueryCalls :
        /\ calls[c].question = <<" ">>
        /\ calls[c].pc = "thrown"
        /\ calls[c].error = "emptyQuestion"
        /\ Len(vectors) > 0

\* the search statement of c returned its rows
Searched(c) == Issued(c, "search") = 1 /\ calls[c].error # "searchFailed"

\* C19: when the similarity search returns zero rows, queryKnowledgeBase
\* returns {answer: "No relevant results found in the selected PDFs.",
\* chunks: []} as a normal result and does not call the completion; when the
\* search returns at least one row, the completion is called exactly once.
C19_CompletionOnlyWithRows ==
    \A c \in QueryCalls :
        /\ Issued(c, "complete") <= 1
        /\ (Searched(c) /\ calls[c].rows = <<>>) =>
              /\ calls[c].result = <<[answer |-> NoRelevantResults, chunks |-> <<>>]>>
              /\ calls[c].error = "none"
              /\ calls[c].pc \in {"destroy", "returned"}
              /\ Issued(c, "complete") = 0
        /\ (Searched(c) /\ calls[c].rows # <<>> /\ Ended(c)) =>
              Issued(c, "complete") = 1
        /\ Issued(c, "complete") = 1 => (Searched(c) /\ calls[c].rows # <<>>)

\* a query restricted to one document returned the fixed answer from a
\* store that holds a row of the other document only
C19_Witness ==
    \E c \in QueryCalls :
        /\ calls[c].pc = "returned"
        /\ calls[c].fileIds = <<U2>>
        /\ Len(vectors) = 1
        /\ calls[c].result = <<[answer |-> NoRelevantResults, chunks |-> <<>>]>>
        /\ Issued(c, "complete") = 0

\* clamp(topK, 1, 10), with 5 for an omitted topK
Clamp(topK) ==
    LET k == IF topK = <<>> THEN 5 ELSE topK[1]
    IN IF k < 1 THEN 1 ELSE IF k > 10 THEN 10 ELSE k

\* C20: the number of rows requested from the similarity search, and so the
\* number of chunks queryKnowledgeBase returns, is at most clamp(topK, 1, 10):
\* topK below 1 gives the limit 1, topK above 10 gives 10, an omitted topK 5.
C20_LimitIsClampedTopK ==
    \A c \in QueryCalls :
        Issued(c, "search") = 1 =>
            /\ calls[c].limit = Clamp(calls[c].topK)
            /\ Len(calls[c].rows) <= Clamp(calls[c].topK)
            /\ calls[c].result # <<>> =>
                  Len(calls[c].result[1].chunks) <= Clamp(calls[c].topK)

\* topK 12 on a store of 12 rows returned 10 chunks
C20_Witness ==
    \E c \in QueryCalls :
        /\ calls[c].topK = <<12>>
        /\ calls[c].fileIds = <<>>
        /\ Len(vectors) = 12
        /\ calls[c].pc = "returned"
        /\ Len(calls[c].result[1].chunks) = 10

\* the file ids a list of chunks comes from
FileIdsOf(mapped) == {mapped[i].fileId : i \in 1..Len(mapped)}

Members(fileIds) == {fileIds[i] : i \in 1..Len(fileIds)}

\* C21: with a non-empty fileIds every chunk a query returns, and every
\* chunk placed in its prompt, has a fileId that is a member of fileIds;
\* with an empty fileIds no filter is applied: the chunks are the first
\* `limit` rows of the whole store, whatever document they belong to.
C21_FileIdsRestrictTheSearch ==
    \A c \in QueryCalls :
        Searched(c) =>
            LET all == Joined(vectors, documents)
                returned == IF calls[c].result = <<>> THEN <<>>
                            ELSE calls[c].result[1].chunks
            IN /\ Len(calls[c].fileIds) > 0 =>
                      /\ FileIdsOf(calls[c].rows) \subseteq Members(calls[c].fileIds)
                      /\ FileIdsOf(calls[c].prompt) \subseteq Members(calls[c].fileIds)
                      /\ FileIdsOf(returned) \subseteq Members(calls[c].fileIds)
               /\ Len(calls[c].fileIds) = 0 =>
                      /\ Len(calls[c].rows) = Min(Len(all), calls[c].limit)
                      /\ \A i \in 1..Len(calls[c].rows) :
                             calls[c].rows[i] = MapChunkRow(all[i])

\* a query restricted to U2 on a store that also holds chunks of U1 has
\* answered from chunks of U2 alone
C21_Witness ==
    \E c \in QueryCalls :
        /\ calls[c].pc = "returned"
        /\ calls[c].fileIds = <<U2>>
        /\ Len(vectors) >= 3
        /\ calls[c].result # <<>>
        /\ FileIdsOf(calls[c].result[1].chunks) = {U2}
        /\ FileIdsOf(calls[c].prompt) = {U2}

\* the calls whose completion statement returned a response
Completed(c) == calls[c].kind = "query" /\ calls[c].completion # <<>>

\* a text fragment is an object with a string text; the fragments of a
\* `content` field may also be plain strings
IsTextFragment(entry) == entry.t = "object" /\ Get(entry, "text").t = "string"
IsFragment(entry) == IsTextFragment(entry) \/ entry.t = "string"

\* the concatenation of the fragments of an array; any other entry adds
\* nothing
RECURSIVE Concatenation(_, _)
Concatenation(entries, withStrings) ==
    IF entries = <<>> THEN <<>>
    ELSE (IF IsTextFragment(Head(entries)) THEN Get(Head(entries), "text").s
          ELSE IF withStrings /\ Head(entries).t = "string" THEN Head(entries).s
          ELSE <<>>) \o Concatenation(Tail(entries), withStrings)

\* choices[0].message.content of a response
FirstContent(value) ==
    LET choices == Get(value, "choices")
    IN IF choices.t = "array" /\ Len(choices.items) > 0
       THEN Get(Get(choices.items[1], "message"), "content")
       ELSE JNull

IsText(value) == value.t \in {"string", "array"}

\* the rule of the list that accepts a response, the rules taken in the order
\* the claim lists them; a choices content counts when it is there, or only
\* when it is non-empty
RuleOf(value, nonEmpty) ==
    IF value.t = "string" THEN "string"
    ELSE IF value.t # "object" THEN "none"
    ELSE IF IsText(FirstContent(value)) /\ (nonEmpty => JTruthy(FirstContent(value)))
    THEN "choices"
    ELSE IF Get(value, "response").t = "string" THEN "response"
    ELSE IF IsText(Get(value, "content")) THEN "content"
    ELSE "none"

\* the field the rule reads
Selected(value, rule) ==
    CASE rule = "string" -> value
      [] rule = "choices" -> FirstContent(value)
      [] rule = "response" -> Get(value, "response")
      [] rule = "content" -> Get(value, "content")
      [] OTHER -> JNull

\* the field is a string, or an array of nothing but fragments
WellFormed(value, rule) ==
    LET field == Selected(value, rule)
    IN \/ field.t = "string"
       \/ /\ field.t = "array"
          /\ \A i \in 1..Len(field.items) :
                IF rule = "choices" THEN IsTextFragment(field.items[i])
                ELSE IsFragment(field.items[i])

\* what the rule makes of the field
TextOf(value, rule) ==
    LET field == Selected(value, rule)
    IN IF field.t = "string" THEN field.s
       ELSE IF field.t = "array" THEN Concatenation(field.items, rule = "content")
       ELSE <<>>

ExampleCompletion == JObj(<<ChoicesOf(JStr(<<"x">>))>>)

C23_MalformedCompletionNeverRaises ==
    \A c \in DOMAIN calls :
        Completed(c) =>
            LET value == calls[c].completion[1]
                rule == RuleOf(value, TRUE)
            IN /\ ~ExtractCompletion(value).threw
               /\ calls[c].error # "typeError"
               /\ ExtractCompletion(value).text = Trim(TextOf(value, rule))
               /\ calls[c].result # <<>>
               /\ calls[c].result[1].answer # <<>>
               /\ Trim(TextOf(value, rule)) = <<>> =>
                      calls[c].result[1].answer = NoAnswerGenerated

\* the failures of upstream calls, and the errors of the caller's input
UpstreamErrors ==
    {"connectFailed", "bootstrapFailed", "uploadFailed", "insertFailed",
     "searchFailed", "completionFailed"}
ClientInputErrors ==
    {"emptyQuestion", "noReadableText", "badIdentifier", "dotDot", "badStage"}
GenericMessages == {FailedToUpload, UnableToRunQuestion, GenericMessage}

\* C24: the message a route returns for a failed upstream call is a generic
\* one and never the upstream error's own; an error's own message is
\* returned only for an error of the caller's input; on /api/upload,
\* /api/query and /api/pdf.
C24_UpstreamDetailNotReturned ==
    /\ \A c \in DOMAIN calls :
          (calls[c].reply # <<>> /\ calls[c].error # "none") =>
              /\ calls[c].error \in UpstreamErrors =>
                    calls[c].reply[1].message \in GenericMessages
              /\ calls[c].reply[1].message = MessageOf(calls[c].error) =>
                    calls[c].error \in ClientInputErrors
    /\ spc = "failed" =>
          /\ thrown \notin ClientInputErrors => response.message = GenericMessage
          /\ response.message = MessageOf(thrown) => thrown \in ClientInputErrors

\* C25: any two stored Document rows differ in fileId and in stagePath, and
\* no step of an ingest, a query or a listing changes or removes a stored
\* Document row: rows are only added, after the rows already stored.
C25_DocumentRowsUniqueAndImmutable ==
    /\ [](\A i, j \in 1..Len(documents) :
             i # j => /\ documents[i].FILE_ID # documents[j].FILE_ID
                      /\ documents[i].STAGE_PATH # documents[j].STAGE_PATH)
    /\ [][IsPrefix(documents, documents')]_vars

\* two ingests have ended and each has stored its Document row, both under
\* the same file name
C25_Witness ==
    /\ Len(documents) = 2
    /\ documents[1].FILENAME = documents[2].FILENAME
    /\ \A c \in DOMAIN calls : calls[c].kind = "ingest" /\ calls[c].pc = "returned"

\* c has issued the bootstrap statements
Bootstrapped(c) == Issued(c, "bootstrap") > 0

\* C27: the latch is set only by a step in which the bootstrap statements of
\* a call completed without a rejection, it is never reset, and once it is
\* set no call begins the bootstrap statements; until then every call that
\* reaches ensureInfrastructure begins them, so two calls can both run them.
C27_LatchSetAfterBootstrapOnly ==
    /\ [][/\ infrastructureReady => infrastructureReady'
          /\ (~infrastructureReady /\ infrastructureReady') =>
                \E c \in DOMAIN calls :
                    /\ calls[c].pc = "bootstrapping"
                    /\ calls'[c].pc = HandlerEntry(c)
                    /\ calls'[c].error = "none"
          /\ infrastructureReady =>
                \A c \in DOMAIN calls :
                    Issued(c, "bootstrap")' = Issued(c, "bootstrap")
          /\ \A c \in DOMAIN calls :
                (~infrastructureReady /\ calls[c].pc = "bootstrap"
                    /\ calls'[c].pc # "bootstrap") =>
                    Issued(c, "bootstrap")' = Issued(c, "bootstrap") + 1]_vars
    /\ [](\A c \in DOMAIN calls : Issued(c, "bootstrap") <= 1)

\* both calls have run the bootstrap statements to the end, and a call that
\* came after the latch was set would not
C27_Witness ==
    /\ infrastructureReady
    /\ \A c \in DOMAIN calls :
          Bootstrapped(c) /\ calls[c].error = "none" /\ calls[c].pc = "returned"

----------------------------------------------------------------------------
(* Properties of the chunker *)

\* the chunks generated so far, those of the page in progress included
AllChunks == chunks \o pageChunks

\* C1: between two consecutive iterations of the loop of chunkPageText the
\* cursor strictly increases and stays below the page length, for every
\* chunkSize >= 1 and chunkOverlap >= 0 (chunkOverlap >= chunkSize included),
\* so the loop ends after at most pageLength iterations.
C1_CursorStrictlyIncreases ==
    [][(pc = "loop" /\ pc' = "loop")
          => (cursor < cursor' /\ cursor' < Len(CurText))]_vars

\* the loop went round at least once with chunkOverlap >= chunkSize
C1_Witness ==
    /\ pc = "loop"
    /\ cursor > 0
    /\ chunkOverlap >= chunkSize

\* C2: every emitted chunk has 0 <= charStart < charEnd <= pageLength and is
\* at most chunkSize characters long.
C2_ChunkBounds ==
    \A i \in 1..Len(AllChunks) :
        LET c == AllChunks[i]
        IN /\ 0 <= c.pageCharStart
           /\ c.pageCharStart < c.pageCharEnd
           /\ c.pageCharEnd <= Len(pages[c.page].text)
           /\ c.pageCharEnd - c.pageCharStart <= chunkSize

\* a chunk that ends at the page end was emitted after an earlier window
C2_Witness ==
    \E i \in 1..Len(chunks) :
        /\ chunks[i].pageCharStart > 0
        /\ chunks[i].pageCharEnd = Len(pages[chunks[i].page].text)
        /\ chunks[i].pageCharEnd - chunks[i].pageCharStart < chunkSize

\* the chunks cut from page p, in generation order
ChunksOfPage(p) == SelectSeq(chunks, LAMBDA c : c.page = p)

\* the raw windows concatenated, every chunk but the first without its first
\* ov characters
RECURSIVE Reconstruct(_, _, _)
Reconstruct(cs, i, ov) ==
    IF i > Len(cs) THEN <<>>
    ELSE (IF i = 1 THEN cs[i].rawText
          ELSE SubSeq(cs[i].rawText, ov + 1, Len(cs[i].rawText)))
         \o Reconstruct(cs, i + 1, ov)

ReconstructPage(p) ==
    Reconstruct(ChunksOfPage(p), 1, Min(chunkOverlap, chunkSize - 1))

\* the non-whitespace characters of a text, in order
StripWs(s) == SelectSeq(s, LAMBDA c : ~IsWs(c))

\* every non-whitespace position of page p lies in a chunk of the page
NonWsCovered(p) ==
    \A i \in 0..(Len(pages[p].text) - 1) :
        ~IsWs(pages[p].text[i + 1]) =>
            \E k \in 1..Len(chunks) :
                /\ chunks[k].page = p
                /\ chunks[k].pageCharStart <= i
                /\ i < chunks[k].pageCharEnd

\* C3 as stated: the reconstruction equals the page text up to the whitespace
\* normalization of the chunker (runs collapsed to one space, trimmed), and
\* every non-whitespace position is covered.
C3_ReconstructsNormalized ==
    \A p \in 1..Len(pages) :
        p < pageIdx =>
            /\ Normalize(ReconstructPage(p)) = Normalize(pages[p].text)
            /\ NonWsCovered(p)

\* C3 amended: the reconstruction holds the non-whitespace characters of the
\* page text in the same order (whitespace that lay in a skipped all-whitespace
\* window is lost), and every non-whitespace position is covered.
C3_ReconstructsNonWhitespace ==
    \A p \in 1..Len(pages) :
        p < pageIdx =>
            /\ StripWs(ReconstructPage(p)) = StripWs(pages[p].text)
            /\ NonWsCovered(p)

\* a finished page with an overlap, a skipped window between two chunks
C3_Witness ==
    /\ pageIdx > 1
    /\ chunkOverlap >= 1
    /\ chunkSize >= 2
    /\ \E k \in 1..(Len(chunks) - 1) :
          /\ chunks[k].page = 1
          /\ chunks[k + 1].page = 1
          /\ chunks[k + 1].pageCharStart >= chunks[k].pageCharEnd

\* the windows of the example: [0,10) and [7,16)
ExampleDone ==
    (pages = MkPages(<<ExampleText>>, TRUE) /\ pageIdx > 1)
        => /\ Len(chunks) = 2
           /\ chunks[1].pageCharStart = 0 /\ chunks[1].pageCharEnd = 10
           /\ chunks[2].pageCharStart = 7 /\ chunks[2].pageCharEnd = 16

\* C4: the first window starts at 0; a window is [cursor, min(cursor +
\* chunkSize, pageLength)); the next cursor is chunkEnd - min(chunkOverlap,
\* chunkSize - 1); the loop stops at the first window that ends at the page
\* end; the example yields exactly [0,10) and [7,16).
C4_WindowRule ==
    /\ [][/\ (pc = "page" /\ pc' = "loop") => cursor' = 0
          /\ pc = "loop" =>
               LET total == Len(CurText)
                   chunkEnd == Min(cursor + chunkSize, total)
                   emitted == SubSeq(chunks' \o pageChunks', Len(AllChunks) + 1,
                                     Len(chunks' \o pageChunks'))
               IN /\ \A k \in 1..Len(emitted) :
                         /\ emitted[k].pageCharStart = cursor
                         /\ emitted[k].pageCharEnd = chunkEnd
                  /\ IF chunkEnd = total
                     THEN pc' = "page" /\ pageIdx' = pageIdx + 1
                     ELSE /\ pc' = "loop"
                          /\ cursor' = chunkEnd - Min(chunkOverlap, chunkSize - 1)]_vars
    /\ []ExampleDone

\* the example was chunked
C4_Witness ==
    /\ pages = MkPages(<<ExampleText>>, TRUE)
    /\ pc = "done"
    /\ Len(vecRows) = 2

\* C5: the chunkIndex values of a document are 0, 1, ..., n-1 in generation
\* order, across pages and skipped pages and windows; after a successful
\* ingest the rows carry CHUNK_INDEX 0..chunkCount-1, each equal to the
\* chunkIndex of the chunk the row was written from.
C5_ChunkIndexDense ==
    /\ \A i \in 1..Len(AllChunks) : AllChunks[i].chunkIndex = i - 1
    /\ pc = "done" =>
          /\ Len(vecRows) = Len(chunks)
          /\ \A i \in 1..Len(vecRows) :
                /\ vecRows[i].CHUNK_INDEX = i - 1
                /\ vecRows[i].chunk = chunks[i]
                /\ vecRows[i].CHUNK_INDEX = vecRows[i].chunk.chunkIndex

\* an ingest succeeded whose first page had its first window skipped and whose
\* second page continued the numbering
C5_Witness ==
    /\ pc = "done"
    /\ chunks[1].page = 1
    /\ chunks[1].pageCharStart > 0
    /\ \E i \in 1..Len(chunks) : chunks[i].page = 2 /\ chunks[i].chunkIndex >= 2

\* C28: every chunk carries the page number the parser reported for its
\* page, or the 1-based position of its page when the parser reported none;
\* so the chunks of one page carry the same pageNumber, whatever the number
\* of chunks or of skipped pages before it.
C28_PageNumberIsPagePosition ==
    /\ \A i \in 1..Len(AllChunks) :
          AllChunks[i].pageNumber =
              (IF pages[AllChunks[i].page].num # <<>>
               THEN pages[AllChunks[i].page].num[1]
               ELSE AllChunks[i].page)
    /\ \A i, j \in 1..Len(AllChunks) :
          AllChunks[i].page = AllChunks[j].page =>
              AllChunks[i].pageNumber = AllChunks[j].pageNumber

----------------------------------------------------------------------------
(* Properties of an upload followed by a retrieval *)

\* C29: for every original file name the filename sanitizeFilename makes is
\* non-empty, lowercase and ends in ".pdf", and both "<fileId>/<filename>"
\* and the stagePath recorded for a stored document are accepted by
\* sanitizeIdentifier, so the request for that stagePath is not rejected as
\* a malformed identifier.
C29_StoredPathIsAcceptedIdentifier ==
    /\ \A c \in IngestCalls :
          /\ calls[c].filename # <<>>
          /\ ToLowerCase(calls[c].filename) = calls[c].filename
          /\ EndsWith(calls[c].filename, DotPdf)
          /\ SanitizeIdentifier(calls[c].fileId \o <<"/">> \o calls[c].filename).ok
    /\ \A i \in 1..Len(documents) : SanitizeIdentifier(documents[i].STAGE_PATH).ok
    /\ thrown \notin {"badIdentifier", "dotDot"}

----------------------------------------------------------------------------
(* Properties of the response headers *)

\* the log holds the event e
Logged(e) == \E k \in 1..Len(log) : log[k] = e

\* C30: the response headers are written only for a candidate whose presign
\* and fetch succeeded, no further candidate is attempted once they are
\* written, and a candidate that fails leaves them as they were: whenever
\* headers are written the loop is at the candidate they were written for,
\* which has not failed, and the error response after all candidates failed
\* carries no header of a candidate.
C30_HeadersOnlyForServedCandidate ==
    /\ headers.set =>
          /\ spc \in {"buffer", "streamed"}
          /\ candIdx <= Len(candidates)
          /\ Logged([op |-> "presign", i |-> candIdx])
          /\ Logged([op |-> "fetch", i |-> candIdx])
          /\ ~Logged([op |-> "fail", i |-> candIdx])
          /\ headers.stagePath = HeaderSource(candIdx).identifier
    /\ spc = "failed" => ~headers.set

====
